---- MODULE Spec2Model ----
(***************************************************************************)
(* TokenizeRWATemplate: the amount conversion routine, the unified wallet  *)
(* facade over the federated (Web3Auth) and traditional (use-wallet)       *)
(* providers, the asset operations with their local history, the NFT mint  *)
(* relay, initWeb3Auth under concurrent callers, and the wallet modal's    *)
(* handleConnect.                                                          *)
(*                                                                         *)
(* JavaScript strings are sequences of one-character strings.  A bigint is *)
(* its canonical sequence of decimal digits 0..9, most significant first   *)
(* (<<0>> for zero), so that it has no width.                              *)
(***************************************************************************)
EXTENDS Integers, Sequences, FiniteSets, TLC

VARIABLES
    value,       \* decimalToBaseUnits: the `value` argument
    decimalsArg, \* decimalToBaseUnits: the `decimals` argument
    result,      \* decimalToBaseUnits: what the call returned or threw
    amountPc,    \* "call" before decimalToBaseUnits ran, "done" after
    \* --- federated provider: environment and module state (web3authConfig)
    clientId,          \* import.meta.env.VITE_WEB3AUTH_CLIENT_ID
    web3authInstance,  \* the memoized module-level instance
    sdkStatus,         \* web3authInstance.status
    sdkSession,        \* the SDK's stored session, which outlives a page load
    \* --- federated provider: React state of Web3AuthProvider
    isInitialized, isConnected, isLoading, error,
    provider, web3AuthInstance, algorandAccount, userInfo,
    \* --- federated provider: positions of its asynchronous operations
    initPc, loginPc, logoutPc,
    reloadPending,     \* window.location.reload() was called, page not yet unloaded
    \* --- traditional provider (useWallet)
    activeWallet,      \* the active adapter, kept across page loads
    tradConnecting,    \* the adapter whose connect() is outstanding
    \* --- unified facade
    disconnectCall,    \* the running disconnect(): its position and what it captured
    \* --- TokenizeAsset: React state
    form,              \* assetName, unitName, total, decimals, url
    loading,
    nftForm,           \* selectedFile, nftName, nftUnit, nftSupply, nftDecimals
    nftLoading,
    transferForm,      \* transferMode, transferAssetId, receiverAddress, transferAmount
    transferLoading,
    createdAssets,     \* the displayed history
    mounted,           \* the mount effects have run
    \* --- TokenizeAsset: the browser and the calls in flight
    storage,           \* localStorage['tokenize_assets']: present or not, and its JSON
    tokenizeCall,      \* handleTokenize: its position and what it sent
    mintCall,          \* handleMintNFT: its position and what it sent
    transferCall,      \* handleTransferAsset: its position and what it sent
    snack,             \* the last notification
    clock,             \* new Date(): one tick per created asset
    createdLog,        \* history: the records in the order they were created
    \* --- the mint relay
    explicitAllowed,   \* ALLOWED_ORIGINS, parsed
    relayReq,          \* the request being served
    relayPc,           \* "idle", "pinFile", "pinJson" or "done"
    relayRes,          \* the responses sent for relayReq
    pinCalls,          \* the calls made to the pinning service for relayReq
    \* --- initWeb3Auth called from several places of one page
    initCalls,         \* per caller: where its call stands and what it returned
    constructed,       \* how many times `new Web3Auth(...)` has run
    \* --- ConnectWallet (the wallet modal of use-wallet)
    connectingId,      \* the wallet whose handleConnect is running, or null
    lastError,
    connectPc,         \* the await at which handleConnect stands
    awaited,           \* the time handleConnect has spent at that await, in units of 10 s
    walletSdk,         \* the Web3Auth instance inside the wallet: found or not, its status
    openModal,
    \* --- Layout and the unified ConnectWallet modal
    openWalletModal,   \* Layout's state, passed to the modal as openModal
    connectingProvider,\* the social provider whose button was pressed, or null
    socialPc           \* handleSocialLogin: "idle", or "connectFn" at its await

amountVars == <<value, decimalsArg, result, amountPc>>
sdkVars == <<clientId, web3authInstance, sdkStatus, sdkSession>>
reactVars == <<isInitialized, isConnected, isLoading, error,
               provider, web3AuthInstance, algorandAccount, userInfo>>
pcVars == <<initPc, loginPc, logoutPc, reloadPending>>
tradVars == <<activeWallet, tradConnecting>>
walletVars == <<sdkVars, reactVars, pcVars, tradVars, disconnectCall>>
assetVars == <<form, loading, nftForm, nftLoading, transferForm, transferLoading,
               createdAssets, mounted, storage, tokenizeCall, mintCall, transferCall,
               snack, clock, createdLog>>
relayVars == <<explicitAllowed, relayReq, relayPc, relayRes, pinCalls>>
callVars == <<initCalls, constructed>>
connectVars == <<connectingId, lastError, connectPc, awaited, walletSdk, openModal>>
modalVars == <<openWalletModal, connectingProvider, socialPc>>
vars == <<amountVars, walletVars, assetVars, relayVars, callVars, connectVars, modalVars>>
notAmountVars == <<walletVars, assetVars, relayVars, callVars, connectVars, modalVars>>
notWalletVars == <<amountVars, assetVars, relayVars, callVars, connectVars, modalVars>>
notAssetVars == <<amountVars, walletVars, relayVars, callVars, connectVars, modalVars>>
notRelayVars == <<amountVars, walletVars, assetVars, callVars, connectVars, modalVars>>
notConnectVars == <<amountVars, walletVars, assetVars, relayVars, callVars, modalVars>>
\* what the modal and the provider under it leave alone
notModalVars == <<amountVars, assetVars, relayVars, callVars, connectVars>>
\* what a call of initWeb3Auth leaves alone, the module's instance and its status apart
notCallVars == <<amountVars, assetVars, relayVars, connectVars, modalVars, clientId, sdkSession, reactVars,
                 pcVars, tradVars, disconnectCall>>

(***************************************************************************)
(* Bounds of the model.                                                    *)
(***************************************************************************)
\* longest typed amount drawn character by character
MaxLen == 4
\* assets created in one run before the forms stop accepting a submit
MaxCreations == 2

(***************************************************************************)
(* Program constants.                                                      *)
(***************************************************************************)
\* Account.tsx:325  d > 19 is rejected
MAX_DECIMALS == 19
\* Account.tsx:87
ALGO_DECIMALS == 6
\* Account.tsx:86
USDC_DECIMALS == 6

(***************************************************************************)
(* JavaScript string primitives used by decimalToBaseUnits.                *)
(***************************************************************************)
Digits == {"0", "1", "2", "3", "4", "5", "6", "7", "8", "9"}

\* characters String.prototype.trim removes (those the model types)
WhiteSpace == {" ", "\t"}

DigitValue(c) ==
    CASE c = "0" -> 0 [] c = "1" -> 1 [] c = "2" -> 2 [] c = "3" -> 3
      [] c = "4" -> 4 [] c = "5" -> 5 [] c = "6" -> 6 [] c = "7" -> 7
      [] c = "8" -> 8 [] c = "9" -> 9

RECURSIVE TrimStart(_)
TrimStart(s) ==
    IF s # <<>> /\ Head(s) \in WhiteSpace THEN TrimStart(Tail(s)) ELSE s

RECURSIVE TrimEnd(_)
TrimEnd(s) ==
    IF s # <<>> /\ s[Len(s)] \in WhiteSpace
    THEN TrimEnd(SubSeq(s, 1, Len(s) - 1))
    ELSE s

\* a mutant of Trim: only leading whitespace is removed
TrimLeadingOnly(s) == TrimStart(s)

\* value.trim()
Trim(s) == TrimEnd(TrimStart(s))

AllDigits(s, from, to) == \A i \in from..to : s[i] \in Digits

\* a mutant of TestAmountPattern: the pattern /^\d*(\.\d*)?$/
TestAmountPatternLoose(v) ==
    \E n \in 0..Len(v) :
        /\ AllDigits(v, 1, n)
        /\ \/ n = Len(v)
           \/ /\ v[n + 1] = "."
              /\ AllDigits(v, n + 2, Len(v))

\* /^\d+(\.\d+)?$/.test(v)
TestAmountPattern(v) ==
    \E n \in 1..Len(v) :
        /\ AllDigits(v, 1, n)
        /\ \/ n = Len(v)
           \/ /\ n + 2 <= Len(v)
              /\ v[n + 1] = "."
              /\ AllDigits(v, n + 2, Len(v))

\* v.split('.'): the pieces between the points, in order
RECURSIVE SplitOnPoint(_, _, _)
SplitOnPoint(s, piece, acc) ==
    IF s = <<>> THEN Append(acc, piece)
    ELSE IF Head(s) = "." THEN SplitOnPoint(Tail(s), <<>>, Append(acc, piece))
    ELSE SplitOnPoint(Tail(s), Append(piece, Head(s)), acc)

Split(v) == SplitOnPoint(v, <<>>, <<>>)

Zeros(n) == [i \in 1..n |-> "0"]

\* a mutant of PadEnd: String.prototype.padStart
PadStart(s, n) == IF Len(s) >= n THEN s ELSE Zeros(n - Len(s)) \o s

\* frac.padEnd(decimals, '0')
PadEnd(s, n) == IF Len(s) >= n THEN s ELSE s \o Zeros(n - Len(s))

\* s.replace(/^0+(?=\d)/, ''): leading zeros go while a digit follows them
RECURSIVE StripLeadingZeros(_)
StripLeadingZeros(s) ==
    IF Len(s) >= 2 /\ s[1] = "0" /\ s[2] \in Digits
    THEN StripLeadingZeros(Tail(s))
    ELSE s

\* canonical digits of a digit sequence: no leading 0, <<0>> for zero
RECURSIVE BigNorm(_)
BigNorm(ds) ==
    IF ds = <<>> THEN <<0>>
    ELSE IF Len(ds) >= 2 /\ ds[1] = 0 THEN BigNorm(Tail(ds))
    ELSE ds

\* BigInt(s) of a string of decimal digits (BigInt('') is 0n)
BigIntOf(s) == BigNorm([i \in 1..Len(s) |-> DigitValue(s[i])])

(***************************************************************************)
(* bigint addition.                                                        *)
(***************************************************************************)
Reverse(s) == [i \in 1..Len(s) |-> s[Len(s) + 1 - i]]

\* least significant digit first, with the carry
RECURSIVE AddLsd(_, _, _)
AddLsd(a, b, carry) ==
    IF a = <<>> /\ b = <<>> THEN (IF carry = 0 THEN <<>> ELSE <<carry>>)
    ELSE LET x == IF a = <<>> THEN 0 ELSE Head(a)
             y == IF b = <<>> THEN 0 ELSE Head(b)
             t == x + y + carry
         IN  <<t % 10>> \o AddLsd(IF a = <<>> THEN <<>> ELSE Tail(a),
                                  IF b = <<>> THEN <<>> ELSE Tail(b),
                                  t \div 10)

\* a + b
BigAdd(a, b) == BigNorm(Reverse(AddLsd(Reverse(a), Reverse(b), 0)))

(***************************************************************************)
(* decimalToBaseUnits (Account.tsx:136-155).  A call returns a bigint or   *)
(* throws an Error; the record keeps which, and the Error's message.       *)
(***************************************************************************)
AmountRequired == "Amount is required"
InvalidFormat == "Invalid amount format"
TooManyDecimalPlaces == "Too many decimal places"

\* nothing returned yet
NoResult == [ok |-> FALSE, error |-> "", max |-> 0]

Returned(n) == [ok |-> TRUE, val |-> n]
\* the message of the third Error ends with `(max ${decimals})`
Threw(msg, max) == [ok |-> FALSE, error |-> msg, max |-> max]

\* a mutant of FracTooLong: a zero `decimals` is taken for "no limit"
FracTooLongUnlessZero(frac, decimals) == decimals > 0 /\ Len(frac) > decimals

\* frac.length > decimals
FracTooLong(frac, decimals) == Len(frac) > decimals

decimalToBaseUnits(val, decimals) ==
    LET v == Trim(val) IN
    IF v = <<>> THEN Threw(AmountRequired, 0)
    ELSE IF ~TestAmountPattern(v) THEN Threw(InvalidFormat, 0)
    ELSE
        LET parts    == Split(v)
            wholeRaw == parts[1]
            fracRaw  == IF Len(parts) >= 2 THEN parts[2] ELSE <<>>
            whole    == IF wholeRaw = <<>> THEN <<"0">> ELSE wholeRaw
            frac     == fracRaw
        IN  IF FracTooLong(frac, decimals)
            THEN Threw(TooManyDecimalPlaces, decimals)
            ELSE
                LET fracPadded == PadEnd(frac, decimals)
                    combined   == StripLeadingZeros(whole \o fracPadded)
                IN  Returned(BigIntOf(IF combined = <<>> THEN <<"0">> ELSE combined))

(***************************************************************************)
(* The inputs of the conversion: every string over the typed alphabet up   *)
(* to MaxLen characters, and the amounts the documentation names.          *)
(***************************************************************************)
TypedChars == {"0", "1", "5", ".", " ", "-"}

TypedStrings == UNION {[1..n -> TypedChars] : n \in 0..MaxLen}

NamedAmounts ==
    { <<"1", ".", "2", "3", "4", "5">>,
      <<"0", "0", "7", ".", "5">>,
      <<"1", "e", "3">>,
      <<"1", ",", "0", "0", "0">>,
      <<"+", "1">>,
      <<" ", " ", " ">>,
      <<"\t", "1", ".", "5", " ", " ">>,
      <<"1", "8", "4", "4", "6", "7", "4", "4", "0", "7", "3", "7", "0", "9", "5", "5", "1", "6", "1", "5">> }

AmountInputs == TypedStrings \cup NamedAmounts

DecimalsInputs == 0..MAX_DECIMALS

AmountInit ==
    /\ value \in AmountInputs
    /\ decimalsArg \in DecimalsInputs
    /\ result = NoResult
    /\ amountPc = "call"

\* one call decimalToBaseUnits(value, decimals)
Convert ==
    /\ amountPc = "call"
    /\ result' = decimalToBaseUnits(value, decimalsArg)
    /\ amountPc' = "done"
    /\ UNCHANGED <<value, decimalsArg, notAmountVars>>

AmountNext == Convert

\* no amount is being converted
AmountAtRest ==
    /\ value = <<>>
    /\ decimalsArg = 0
    /\ result = NoResult
    /\ amountPc = "done"

(***************************************************************************)
(* The two wallet providers.  A value that JavaScript holds as null is     *)
(* NULL; the objects the code only passes on (the SDK instance, the        *)
(* provider, the derived account, the user's profile) are opaque tokens.   *)
(***************************************************************************)
NULL == "null"

\* the adapters registered with the WalletManager
Wallets == {"pera", "defly"}

\* the address of an adapter's active account
TradAddress(w) == IF w = "pera" THEN "ADDR_PERA" ELSE "ADDR_DEFLY"

\* reading .address of null throws
TypeError == "TypeError"

\* algorandAccount!.address
AccountAddress(account) == IF account = NULL THEN TypeError ELSE "ADDR_WEB3AUTH"

(***************************************************************************)
(* useUnifiedWallet (unnamed/part_005): the merged view, recomputed from   *)
(* the two providers' state at every render.                               *)
(***************************************************************************)
\* useWallet().activeAddress
TraditionalActiveAddress ==
    IF activeWallet = NULL THEN NULL ELSE TradAddress(activeWallet)

\* a mutant of isWeb3AuthActive: the derived account is not looked at
isWeb3AuthActiveByFlag == isConnected

isWeb3AuthActive == isConnected /\ algorandAccount # NULL

isTraditionalActive == TraditionalActiveAddress # NULL

\* a mutant of UnifiedActiveAddress: the traditional wallet is asked first
UnifiedActiveAddressTraditionalFirst ==
    IF TraditionalActiveAddress # NULL THEN TraditionalActiveAddress
    ELSE IF isWeb3AuthActive THEN AccountAddress(algorandAccount)
    ELSE NULL

\* activeAddress
UnifiedActiveAddress ==
    IF isWeb3AuthActive THEN AccountAddress(algorandAccount)
    ELSE TraditionalActiveAddress

\* isConnected: !!activeAddress
UnifiedIsConnected == UnifiedActiveAddress # NULL

walletType ==
    IF isWeb3AuthActive THEN "web3auth"
    ELSE IF isTraditionalActive THEN "traditional"
    ELSE NULL

\* a mutant of UnifiedSigner: the signer follows the connected flag alone
UnifiedSignerByFlag ==
    IF isConnected THEN "createWeb3AuthSigner" ELSE "transactionSigner"

\* signer: createWeb3AuthSigner(algorandAccount) or traditional.transactionSigner
UnifiedSigner ==
    IF isWeb3AuthActive THEN "createWeb3AuthSigner" ELSE "transactionSigner"

\* the account a signer signs for: the algorandAccount it was built from, or
\* the active account of the traditional adapter
SignerAddress ==
    IF UnifiedSigner = "createWeb3AuthSigner" THEN AccountAddress(algorandAccount)
    ELSE TraditionalActiveAddress

(***************************************************************************)
(* Web3AuthProvider: start-up (initializeWeb3Auth with initWeb3Auth).      *)
(***************************************************************************)
Err ==
    [ClientIdNotConfigured |-> "VITE_WEB3AUTH_CLIENT_ID is not configured",
     InitModalError |-> "initModal failed",
     DeriveFailed |-> "Failed to derive Algorand account. Please reconnect.",
     NotInitialized |-> "Web3Auth not initialized",
     ConnectFailed |-> "Failed to connect Web3Auth provider",
     ConnectRejected |-> "connect rejected",
     DeriveRejected |-> "getAlgorandAccount rejected",
     LogoutRejected |-> "logout rejected"]

\* what getWeb3AuthUserInfo() can resolve to
UserInfoOutcomes ==
    IF web3authInstance = NULL \/ sdkStatus # "connected"
    THEN {NULL}
    ELSE {"userInfo", NULL}

\* the effect runs: setIsLoading(true), setError(null), and initWeb3Auth()
\* up to its first await
InitStart ==
    /\ initPc = "mount"
    /\ isLoading' = TRUE
    /\ error' = NULL
    /\ IF web3authInstance # NULL
       THEN /\ initPc' = "returned"
            /\ UNCHANGED <<web3authInstance, sdkStatus>>
       ELSE IF clientId = NULL
       THEN /\ initPc' = "threwClientId"
            /\ UNCHANGED <<web3authInstance, sdkStatus>>
       ELSE /\ web3authInstance' = "web3auth"
            /\ sdkStatus' = "not_ready"
            /\ initPc' = "initModal"
    /\ UNCHANGED <<notWalletVars, clientId, sdkSession, isInitialized, isConnected, provider,
                   web3AuthInstance, algorandAccount, userInfo, loginPc, logoutPc,
                   reloadPending, tradVars, disconnectCall>>

\* initModal() resolves; a stored session is restored by it
InitModalOk ==
    /\ initPc = "initModal"
    /\ sdkStatus' = IF sdkSession THEN "connected" ELSE "ready"
    /\ initPc' = "returned"
    /\ UNCHANGED <<notWalletVars, clientId, web3authInstance, sdkSession, reactVars, loginPc,
                   logoutPc, reloadPending, tradVars, disconnectCall>>

\* initModal() rejects; initWeb3Auth rethrows
InitModalFail ==
    /\ initPc = "initModal"
    /\ initPc' = "threwInitModal"
    /\ UNCHANGED <<notWalletVars, sdkVars, reactVars, loginPc, logoutPc, reloadPending, tradVars,
                   disconnectCall>>

\* after `await initWeb3Auth()` resolved
InitResolved ==
    /\ initPc = "returned"
    /\ web3AuthInstance' = web3authInstance
    /\ IF sdkStatus = "connected"
       THEN /\ provider' = "provider"
            /\ isConnected' = TRUE
            /\ initPc' = "getAlgorandAccount"
            /\ UNCHANGED <<isInitialized, isLoading>>
       ELSE /\ isInitialized' = TRUE
            /\ isLoading' = FALSE
            /\ initPc' = "done"
            /\ UNCHANGED <<provider, isConnected>>
    /\ UNCHANGED <<notWalletVars, sdkVars, error, algorandAccount, userInfo, loginPc, logoutPc,
                   reloadPending, tradVars, disconnectCall>>

\* a mutant of InitRejected: the catch swallows the error
InitRejectedSilently ==
    /\ initPc \in {"threwClientId", "threwInitModal"}
    /\ error' = NULL
    /\ isInitialized' = TRUE
    /\ isLoading' = FALSE
    /\ initPc' = "done"
    /\ UNCHANGED <<notWalletVars, sdkVars, isConnected, provider, web3AuthInstance, algorandAccount,
                   userInfo, loginPc, logoutPc, reloadPending, tradVars, disconnectCall>>

\* the catch of initializeWeb3Auth, and its finally
InitRejected ==
    /\ initPc \in {"threwClientId", "threwInitModal"}
    /\ error' = IF initPc = "threwClientId" THEN Err.ClientIdNotConfigured ELSE Err.InitModalError
    /\ isInitialized' = TRUE
    /\ isLoading' = FALSE
    /\ initPc' = "done"
    /\ UNCHANGED <<notWalletVars, sdkVars, isConnected, provider, web3AuthInstance, algorandAccount,
                   userInfo, loginPc, logoutPc, reloadPending, tradVars, disconnectCall>>

\* getAlgorandAccount(web3auth.provider) resolves
InitAccountOk ==
    /\ initPc = "getAlgorandAccount"
    /\ algorandAccount' = "account"
    /\ initPc' = "getUserInfo"
    /\ UNCHANGED <<notWalletVars, sdkVars, isInitialized, isConnected, isLoading, error, provider,
                   web3AuthInstance, userInfo, loginPc, logoutPc, reloadPending,
                   tradVars, disconnectCall>>

\* getAlgorandAccount rejects: the inner catch only records the error
InitAccountFail ==
    /\ initPc = "getAlgorandAccount"
    /\ error' = Err.DeriveFailed
    /\ initPc' = "getUserInfo"
    /\ UNCHANGED <<notWalletVars, sdkVars, isInitialized, isConnected, isLoading, provider,
                   web3AuthInstance, algorandAccount, userInfo, loginPc, logoutPc,
                   reloadPending, tradVars, disconnectCall>>

\* getWeb3AuthUserInfo() resolves; setIsInitialized(true); finally
InitUserInfo ==
    /\ initPc = "getUserInfo"
    /\ \E info \in UserInfoOutcomes :
           userInfo' = IF info # NULL THEN info ELSE userInfo
    /\ isInitialized' = TRUE
    /\ isLoading' = FALSE
    /\ initPc' = "done"
    /\ UNCHANGED <<notWalletVars, sdkVars, isConnected, error, provider, web3AuthInstance,
                   algorandAccount, loginPc, logoutPc, reloadPending, tradVars,
                   disconnectCall>>

(***************************************************************************)
(* Web3AuthProvider.login                                                  *)
(***************************************************************************)
\* login(adapter, loginProvider) from a social button of the modal (direct),
\* or login() from the sign-in button (the SDK's own modal)
LoginCall(direct) ==
    /\ loginPc = "idle"
    /\ ~reloadPending
    /\ IF direct THEN ~UnifiedIsConnected ELSE ~isConnected /\ ~isLoading
    /\ IF web3AuthInstance = NULL
       THEN /\ error' = Err.NotInitialized
            /\ UNCHANGED <<isLoading, loginPc>>
       ELSE /\ isLoading' = TRUE
            /\ error' = NULL
            /\ loginPc' = IF direct THEN "connectTo" ELSE "connect"

\* login, called with the modal left as it is
LoginStart(direct) ==
    /\ LoginCall(direct)
    /\ UNCHANGED <<notWalletVars, sdkVars, isInitialized, isConnected, provider, web3AuthInstance,
                   algorandAccount, userInfo, initPc, logoutPc, reloadPending,
                   tradVars, disconnectCall>>

\* a mutant of LoginRollback: the catch leaves the provider in place
LoginRollbackKeepsProvider(msg) ==
    /\ error' = msg
    /\ isConnected' = FALSE
    /\ provider' = provider
    /\ algorandAccount' = NULL
    /\ userInfo' = NULL
    /\ isLoading' = FALSE
    /\ loginPc' = "idle"

\* the catch of login, and its finally
LoginRollback(msg) ==
    /\ error' = msg
    /\ isConnected' = FALSE
    /\ provider' = NULL
    /\ algorandAccount' = NULL
    /\ userInfo' = NULL
    /\ isLoading' = FALSE
    /\ loginPc' = "idle"

\* connectTo / connect resolves with a provider
LoginConnectOk ==
    /\ loginPc \in {"connectTo", "connect"}
    /\ sdkStatus' = "connected"
    /\ sdkSession' = TRUE
    /\ provider' = "provider"
    /\ isConnected' = TRUE
    /\ loginPc' = "getAlgorandAccount"
    /\ UNCHANGED <<notWalletVars, clientId, web3authInstance, isInitialized, isLoading, error,
                   web3AuthInstance, algorandAccount, userInfo, initPc, logoutPc,
                   reloadPending, tradVars, disconnectCall>>

\* connectTo / connect rejects, or resolves with null
LoginConnectFail ==
    /\ loginPc \in {"connectTo", "connect"}
    /\ \E msg \in {Err.ConnectRejected, Err.ConnectFailed} : LoginRollback(msg)
    /\ UNCHANGED <<notWalletVars, sdkVars, isInitialized, web3AuthInstance, initPc, logoutPc,
                   reloadPending, tradVars, disconnectCall>>

\* getAlgorandAccount(web3authProvider) resolves
LoginAccountOk ==
    /\ loginPc = "getAlgorandAccount"
    /\ algorandAccount' = "account"
    /\ loginPc' = "getUserInfo"
    /\ UNCHANGED <<notWalletVars, sdkVars, isInitialized, isConnected, isLoading, error, provider,
                   web3AuthInstance, userInfo, initPc, logoutPc, reloadPending,
                   tradVars, disconnectCall>>

\* getAlgorandAccount rejects
LoginAccountFail ==
    /\ loginPc = "getAlgorandAccount"
    /\ LoginRollback(Err.DeriveRejected)
    /\ UNCHANGED <<notWalletVars, sdkVars, isInitialized, web3AuthInstance, initPc, logoutPc,
                   reloadPending, tradVars, disconnectCall>>

\* getWeb3AuthUserInfo() resolves; finally
LoginUserInfo ==
    /\ loginPc = "getUserInfo"
    /\ \E info \in UserInfoOutcomes :
           userInfo' = IF info # NULL THEN info ELSE userInfo
    /\ isLoading' = FALSE
    /\ loginPc' = "idle"
    /\ UNCHANGED <<notWalletVars, sdkVars, isInitialized, isConnected, error, provider,
                   web3AuthInstance, algorandAccount, initPc, logoutPc, reloadPending,
                   tradVars, disconnectCall>>

(***************************************************************************)
(* Web3AuthProvider.logout                                                 *)
(***************************************************************************)
\* logout() up to `await logoutFromWeb3Auth()`
LogoutCall ==
    /\ logoutPc = "idle"
    /\ isLoading' = TRUE
    /\ error' = NULL
    /\ logoutPc' = "logoutFromWeb3Auth"

\* logout() from the account menu of the sign-in button
LogoutStart ==
    /\ ~reloadPending
    /\ isConnected /\ algorandAccount # NULL
    /\ disconnectCall.pc # "logout"
    /\ LogoutCall
    /\ UNCHANGED <<notWalletVars, sdkVars, isInitialized, isConnected, provider, web3AuthInstance,
                   algorandAccount, userInfo, initPc, loginPc, reloadPending,
                   tradVars, disconnectCall>>

\* logoutFromWeb3Auth() resolves: the state is cleared, the reload is asked for
LogoutOk ==
    /\ logoutPc = "logoutFromWeb3Auth"
    /\ IF web3authInstance # NULL
       THEN sdkStatus' = "ready" /\ sdkSession' = FALSE
       ELSE UNCHANGED <<sdkStatus, sdkSession>>
    /\ provider' = NULL
    /\ isConnected' = FALSE
    /\ algorandAccount' = NULL
    /\ userInfo' = NULL
    /\ reloadPending' = TRUE
    /\ isLoading' = FALSE
    /\ logoutPc' = "idle"
    /\ UNCHANGED <<notWalletVars, clientId, web3authInstance, isInitialized, error, web3AuthInstance,
                   initPc, loginPc, tradVars, disconnectCall>>

\* web3authInstance.logout() rejects: the catch records the error
LogoutFail ==
    /\ logoutPc = "logoutFromWeb3Auth"
    /\ web3authInstance # NULL
    /\ error' = Err.LogoutRejected
    /\ isLoading' = FALSE
    /\ logoutPc' = "idle"
    /\ UNCHANGED <<notWalletVars, sdkVars, isInitialized, isConnected, provider, web3AuthInstance,
                   algorandAccount, userInfo, initPc, loginPc, reloadPending,
                   tradVars, disconnectCall>>

\* the page unloads and loads again: module and React state start over, what
\* was awaited is dropped; the SDK session and the active adapter are stored
PageReload ==
    /\ reloadPending
    \* the continuation of `await logout()` runs before the page unloads
    /\ ~(disconnectCall.pc = "logout" /\ logoutPc = "idle")
    /\ web3authInstance' = NULL
    /\ sdkStatus' = "not_ready"
    /\ isInitialized' = FALSE
    /\ isConnected' = FALSE
    /\ isLoading' = FALSE
    /\ error' = NULL
    /\ provider' = NULL
    /\ web3AuthInstance' = NULL
    /\ algorandAccount' = NULL
    /\ userInfo' = NULL
    /\ initPc' = "mount"
    /\ loginPc' = "idle"
    /\ logoutPc' = "idle"
    /\ reloadPending' = FALSE
    /\ tradConnecting' = NULL
    /\ disconnectCall' = [pc |-> "idle", fed |-> FALSE, trad |-> FALSE, wallet |-> NULL]
    /\ openWalletModal' = FALSE
    /\ connectingProvider' = NULL
    /\ socialPc' = "idle"
    /\ UNCHANGED <<notModalVars, clientId, sdkSession, activeWallet>>

(***************************************************************************)
(* The traditional provider: wallet.connect() from the modal.              *)
(***************************************************************************)
TradConnectStart(w) ==
    /\ ~reloadPending
    /\ ~UnifiedIsConnected
    /\ tradConnecting = NULL
    /\ tradConnecting' = w
    /\ UNCHANGED <<notWalletVars, sdkVars, reactVars, pcVars, activeWallet, disconnectCall>>

TradConnectOk ==
    /\ tradConnecting # NULL
    /\ activeWallet' = tradConnecting
    /\ tradConnecting' = NULL
    /\ UNCHANGED <<notWalletVars, sdkVars, reactVars, pcVars, disconnectCall>>

TradConnectFail ==
    /\ tradConnecting # NULL
    /\ tradConnecting' = NULL
    /\ UNCHANGED <<notWalletVars, sdkVars, reactVars, pcVars, activeWallet, disconnectCall>>

(***************************************************************************)
(* useUnifiedWallet().disconnect (unnamed/part_005:36-39).  The closure    *)
(* holds isWeb3AuthActive, isTraditionalActive and traditional.activeWallet *)
(* of the render it was made in.                                           *)
(***************************************************************************)
NoDisconnect == [pc |-> "idle", fed |-> FALSE, trad |-> FALSE, wallet |-> NULL]

\* the Disconnect button: `if (isWeb3AuthActive) await logout()`, or straight
\* to the second statement
DisconnectStart ==
    /\ disconnectCall.pc \in {"idle", "done"}
    /\ ~reloadPending
    /\ UnifiedIsConnected
    /\ IF isWeb3AuthActive
       THEN /\ LogoutCall
            /\ disconnectCall' = [pc |-> "logout", fed |-> TRUE,
                                  trad |-> isTraditionalActive, wallet |-> activeWallet]
       ELSE /\ disconnectCall' = [pc |-> "traditional", fed |-> FALSE,
                                  trad |-> isTraditionalActive, wallet |-> activeWallet]
            /\ UNCHANGED <<isLoading, error, logoutPc>>
    /\ UNCHANGED <<notWalletVars, sdkVars, isInitialized, isConnected, provider, web3AuthInstance,
                   algorandAccount, userInfo, initPc, loginPc, reloadPending, tradVars>>

\* a mutant of DisconnectAfterLogout: nothing more is done once the reload is asked for
DisconnectAfterLogoutUnlessReload ==
    /\ disconnectCall.pc = "logout"
    /\ logoutPc = "idle"
    /\ disconnectCall' =
           [disconnectCall EXCEPT !.pc =
               IF disconnectCall.trad /\ disconnectCall.wallet # NULL /\ ~reloadPending
               THEN "traditional" ELSE "done"]
    /\ UNCHANGED <<notWalletVars, sdkVars, reactVars, pcVars, tradVars>>

\* logout() has returned: `if (isTraditionalActive) await ...activeWallet?.disconnect()`
DisconnectAfterLogout ==
    /\ disconnectCall.pc = "logout"
    /\ logoutPc = "idle"
    /\ disconnectCall' =
           [disconnectCall EXCEPT !.pc =
               IF disconnectCall.trad /\ disconnectCall.wallet # NULL
               THEN "traditional" ELSE "done"]
    /\ UNCHANGED <<notWalletVars, sdkVars, reactVars, pcVars, tradVars>>

\* the adapter's disconnect() resolves
DisconnectTraditionalDone ==
    /\ disconnectCall.pc = "traditional"
    /\ activeWallet' = IF activeWallet = disconnectCall.wallet THEN NULL ELSE activeWallet
    /\ disconnectCall' = [disconnectCall EXCEPT !.pc = "done"]
    /\ UNCHANGED <<notWalletVars, sdkVars, reactVars, pcVars, tradConnecting>>

WalletInit ==
    /\ clientId \in {NULL, "CLIENT_ID"}
    /\ sdkSession \in BOOLEAN
    /\ sdkSession => clientId # NULL
    /\ web3authInstance = NULL
    /\ sdkStatus = "not_ready"
    /\ isInitialized = FALSE
    /\ isConnected = FALSE
    /\ isLoading = FALSE
    /\ error = NULL
    /\ provider = NULL
    /\ web3AuthInstance = NULL
    /\ algorandAccount = NULL
    /\ userInfo = NULL
    /\ initPc = "mount"
    /\ loginPc = "idle"
    /\ logoutPc = "idle"
    /\ reloadPending = FALSE
    /\ activeWallet \in Wallets \cup {NULL}
    /\ tradConnecting = NULL
    /\ disconnectCall = NoDisconnect

\* the page as first loaded by a new visitor
WalletAtRest ==
    /\ WalletInit
    /\ clientId = "CLIENT_ID"
    /\ sdkSession = FALSE
    /\ activeWallet = NULL

WalletNext ==
    \/ InitStart \/ InitModalOk \/ InitModalFail \/ InitResolved \/ InitRejected
    \/ InitAccountOk \/ InitAccountFail \/ InitUserInfo
    \/ \E direct \in BOOLEAN : LoginStart(direct)
    \/ LoginConnectOk \/ LoginConnectFail \/ LoginAccountOk \/ LoginAccountFail
    \/ LoginUserInfo
    \/ LogoutStart \/ LogoutOk \/ LogoutFail \/ PageReload
    \/ \E w \in Wallets : TradConnectStart(w)
    \/ TradConnectOk \/ TradConnectFail
    \/ DisconnectStart \/ DisconnectAfterLogout \/ DisconnectTraditionalDone

(***************************************************************************)
(* TokenizeAsset (Account.tsx:163-): the forms, the three handlers and the *)
(* list of created assets.  Typed numbers (total, decimals, amounts, asset *)
(* ids) are character sequences; names and addresses are plain strings.    *)
(* The four optional role addresses of an asset (manager, reserve, freeze, *)
(* clawback) are passed through like `url` and are left out.               *)
(***************************************************************************)
UNDEFINED == "undefined"

\* Account.tsx:85
TESTNET_USDC_ASSET_ID == 10458941

\* the ids the chain hands out; it may hand out the same one twice
AssetIds == {1001, 1002}

\* String(n) of a non-negative integer
RECURSIVE DigitsOfNat(_)
DigitsOfNat(n) ==
    LET d == CHOOSE c \in Digits : DigitValue(c) = n % 10
    IN  IF n < 10 THEN <<d>> ELSE Append(DigitsOfNat(n \div 10), d)

ALGO == <<"A", "L", "G", "O">>

\* isWholeNumber: /^\d+$/.test(v)
isWholeNumber(v) == v # <<>> /\ AllDigits(v, 1, Len(v))

\* Number(v) of a string of decimal digits, as long as it is small
RECURSIVE NumberOfDigits(_)
NumberOfDigits(v) ==
    IF v = <<>> THEN 0
    ELSE 10 * NumberOfDigits(SubSeq(v, 1, Len(v) - 1)) + DigitValue(v[Len(v)])

\* a mutant of DecimalsOutOfRange: the upper limit is not checked
DecimalsNegativeOnly(d) == d < 0

\* Number.isNaN(d) || d < 0 || d > 19, for the d of a digit string
DecimalsOutOfRange(d) == d < 0 \/ d > MAX_DECIMALS

\* a mutant of OnChainTotal: the total is not scaled by the decimals
OnChainTotalUnscaled(total, d) == BigIntOf(total)

\* BigInt(total) * 10n ** BigInt(d)
OnChainTotal(total, d) ==
    LET n == BigIntOf(total)
    IN  IF n = <<0>> THEN <<0>> ELSE n \o [i \in 1..d |-> 0]

(***************************************************************************)
(* Number(s) for the comparison `Number(transferAmount) <= 0`: the sign of *)
(* the number a string converts to, or NaN.  Exponents are not evaluated   *)
(* (no typed amount of the model underflows to 0).                         *)
(***************************************************************************)
\* digits, digits., digits.digits or .digits
IsDecimalLiteral(s) ==
    LET points == {i \in 1..Len(s) : s[i] = "."} IN
    /\ s # <<>>
    /\ \A i \in 1..Len(s) : s[i] \in Digits \cup {"."}
    /\ Cardinality(points) <= 1
    /\ \E i \in 1..Len(s) : s[i] \in Digits

IsExponent(s) ==
    /\ s # <<>>
    /\ isWholeNumber(IF s[1] \in {"+", "-"} THEN Tail(s) ELSE s)

NumberSign(s) ==
    LET t        == Trim(s)
        negative == t # <<>> /\ t[1] = "-"
        body     == IF t # <<>> /\ t[1] \in {"+", "-"} THEN Tail(t) ELSE t
        es       == {i \in 1..Len(body) : body[i] \in {"e", "E"}}
        e        == IF es = {} THEN Len(body) + 1
                    ELSE CHOOSE i \in es : \A j \in es : i <= j
        mantissa == SubSeq(body, 1, e - 1)
        wellFormed ==
            /\ IsDecimalLiteral(mantissa)
            /\ es # {} => IsExponent(SubSeq(body, e + 1, Len(body)))
        isZero   == \A i \in 1..Len(mantissa) : mantissa[i] \in {"0", "."}
    IN  IF t = <<>> THEN "zero"
        ELSE IF ~wellFormed THEN "NaN"
        ELSE IF isZero THEN "zero"
        ELSE IF negative THEN "negative"
        ELSE "positive"

\* a mutant of AmountNotPositive: only the empty amount is turned down
AmountEmptyOnly(amount) == amount = <<>>

\* !transferAmount || Number(transferAmount) <= 0
AmountNotPositive(amount) ==
    amount = <<>> \/ NumberSign(amount) \in {"zero", "negative"}

(***************************************************************************)
(* The history: localStorage['tokenize_assets'] and createdAssets.         *)
(***************************************************************************)
\* JSON.stringify leaves out a property whose value is undefined
JSONObject(asset) ==
    IF "url" \in DOMAIN asset /\ asset.url = UNDEFINED
    THEN [k \in DOMAIN asset \ {"url"} |-> asset[k]]
    ELSE asset

JSONStringify(list) == [i \in 1..Len(list) |-> JSONObject(list[i])]

\* JSON.parse gives the objects back; a property left out reads as undefined
JSONParse(text) == text

NoItem == [present |-> FALSE, text |-> <<>>]

\* loadAssets
loadAssets == IF storage.present THEN JSONParse(storage.text) ELSE <<>>

\* a mutant of NextAssets: the new asset goes to the end of the list
NextAssetsAppended(asset, existing) == existing \o <<asset>>

\* persistAsset: const next = [asset, ...existing]
NextAssets(asset, existing) == <<asset>> \o existing

\* the CreatedAsset built after assetCreate returned
NewEntry(assetId, call) ==
    [assetId   |-> assetId,
     assetName |-> call.assetName,
     unitName  |-> call.unitName,
     total     |-> call.totalTyped,
     decimals  |-> call.decimalsTyped,
     url       |-> IF call.url = "" THEN UNDEFINED ELSE call.url,
     createdAt |-> clock]

(***************************************************************************)
(* The transfer form's effects (Account.tsx:231-255), run to their fixed   *)
(* point after a render that changed what they depend on.                  *)
(***************************************************************************)
USDC_ID_TEXT == DigitsOfNat(TESTNET_USDC_ASSET_ID)

SettleTransfer(tf, assets, modeChanged) ==
    LET id1 == IF ~modeChanged THEN tf.transferAssetId
               ELSE IF tf.transferMode = "algo" THEN ALGO
               ELSE IF tf.transferMode = "usdc" THEN USDC_ID_TEXT
               ELSE IF tf.transferAssetId \in {ALGO, USDC_ID_TEXT} THEN <<>>
               ELSE tf.transferAssetId
        id2 == IF tf.transferMode = "manual" /\ id1 = <<>> /\ assets # <<>>
               THEN DigitsOfNat(assets[1].assetId)
               ELSE id1
    IN  [tf EXCEPT !.transferAssetId = id2]

DefaultForm ==
    [assetName |-> "Tokenized Coffee Membership", unitName |-> "COFFEE",
     total |-> <<"1", "0", "0", "0">>, decimals |-> <<"0">>, url |-> ""]

DefaultNftForm ==
    [selectedFile |-> NULL, nftName |-> "MasterPass Ticket", nftUnit |-> "MTK",
     nftSupply |-> <<"1">>, nftDecimals |-> <<"0">>]

DefaultTransferForm ==
    [transferMode |-> "manual", transferAssetId |-> <<>>, receiverAddress |-> "",
     transferAmount |-> <<"1">>]

NoCall == [pc |-> "idle"]

\* notifications (enqueueSnackbar), by the place that sends them
Msg ==
    [ConnectFirst |-> "Please connect a wallet or continue with Google first.",
     NameAndSymbol |-> "Please enter an asset name and symbol.",
     TotalWhole |-> "Total supply must be a whole number.",
     DecimalsWhole |-> "Decimals must be a whole number (0-19).",
     DecimalsRange |-> "Decimals must be between 0 and 19.",
     Tokenizing |-> "Tokenizing asset (creating ASA)...",
     TokenizeSuccess |-> "Success! Asset ID",
     TokenizeFailed |-> "Failed to tokenize asset (ASA creation failed).",
     SelectFileFirst |-> "Please select an image file to mint.",
     NftNameAndUnit |-> "Please enter an NFT name and unit/symbol.",
     SupplyWhole |-> "Supply must be a whole number.",
     NftDecimalsRange |-> "NFT decimals must be between 0 and 19.",
     Uploading |-> "Uploading and preparing NFT...",
     UploadError |-> "Error uploading to backend. If in Codespaces, make port 3001 Public.",
     Minting |-> "Minting NFT on Algorand...",
     MintSuccess |-> "Success! NFT Asset ID",
     MintFailed |-> "Failed to mint NFT",
     EnterRecipient |-> "Please enter a recipient address.",
     AmountGreaterThanZero |-> "Please enter an amount greater than 0.",
     ValidAssetId |-> "Please enter a valid Asset ID (number).",
     AmountWhole |-> "Amount must be a whole number for manual ASA transfers.",
     AmountValidNumber |-> "Amount must be a valid number (decimals allowed).",
     SendingAlgo |-> "Sending ALGO...",
     SendingUsdc |-> "Sending USDC...",
     Transferring |-> "Transferring asset...",
     TransferDone |-> "Transfer complete",
     AlgoSendFailed |-> "ALGO send failed.",
     TransferFailed |-> "Transfer failed. If sending an ASA (incl. USDC), make sure the recipient has opted in."]

(***************************************************************************)
(* Number(microAlgos): a bigint converted to a double, rounded to nearest, *)
(* ties to even, once it needs more than 53 bits.                          *)
(***************************************************************************)
\* a < b for canonical digit sequences
RECURSIVE DigitsLess(_, _)
DigitsLess(a, b) ==
    IF a = <<>> THEN FALSE
    ELSE IF Head(a) # Head(b) THEN Head(a) < Head(b)
    ELSE DigitsLess(Tail(a), Tail(b))

BigLess(a, b) == Len(a) < Len(b) \/ (Len(a) = Len(b) /\ DigitsLess(a, b))

\* n div 2, most significant digit first, with the remainder carried down
RECURSIVE HalveDigits(_, _)
HalveDigits(ds, rem) ==
    IF ds = <<>> THEN <<>>
    ELSE LET t == 10 * rem + Head(ds)
         IN  <<t \div 2>> \o HalveDigits(Tail(ds), t % 2)

BigHalf(n) == BigNorm(HalveDigits(n, 0))

BigIsOdd(n) == n[Len(n)] % 2 = 1

\* 2^53
TwoTo53 == <<9, 0, 0, 7, 1, 9, 9, 2, 5, 4, 7, 4, 0, 9, 9, 2>>

\* 2n, least significant digit first, with the carry
RECURSIVE DoubleLsd(_, _)
DoubleLsd(ds, carry) ==
    IF ds = <<>> THEN (IF carry = 0 THEN <<>> ELSE <<carry>>)
    ELSE LET t == 2 * Head(ds) + carry
         IN  <<t % 10>> \o DoubleLsd(Tail(ds), t \div 10)

BigDouble(n) == Reverse(DoubleLsd(Reverse(n), 0))

RECURSIVE BigTimesPow2(_, _)
BigTimesPow2(n, k) ==
    IF k = 0 THEN n
    ELSE CHOOSE d \in {BigDouble(h) : h \in {BigTimesPow2(n, k - 1)}} : TRUE

\* m: the bits kept so far, k: the bits dropped, half: the last bit dropped,
\* sticky: whether a 1 was dropped before it.  The arguments of the next round
\* are bound as values, so that each is computed once.
RECURSIVE RoundToDouble(_, _, _, _)
RoundToDouble(m, k, half, sticky) ==
    IF BigLess(m, TwoTo53)
    THEN LET up == half /\ (sticky \/ BigIsOdd(m))
         IN  [mantissa |-> IF up THEN BigAdd(m, <<1>>) ELSE m, exponent |-> k]
    ELSE CHOOSE r \in {RoundToDouble(h, j, o, s) :
                           h \in {BigHalf(m)}, j \in {k + 1},
                           o \in {BigIsOdd(m)}, s \in {sticky \/ half}} : TRUE

\* a mutant of NumberOfBigInt: the conversion is taken to be exact
NumberOfBigIntExact(n) == n

\* Number(n) for a bigint n >= 0, as the integer the double holds
NumberOfBigInt(n) ==
    LET double == RoundToDouble(n, 0, FALSE, FALSE)
    IN  BigTimesPow2(double.mantissa, double.exponent)

\* the creations begun and not yet answered
CreationsInFlight ==
    (IF tokenizeCall.pc = "idle" THEN 0 ELSE 1) + (IF mintCall.pc = "idle" THEN 0 ELSE 1)

(***************************************************************************)
(* handleTokenize (Account.tsx:305-392)                                    *)
(***************************************************************************)
\* the early returns, in order; "ok" when none is taken
TokenizeCheck ==
    IF UnifiedSigner = NULL \/ UnifiedActiveAddress = NULL THEN Msg.ConnectFirst
    ELSE IF form.assetName = "" \/ form.unitName = "" THEN Msg.NameAndSymbol
    ELSE IF ~isWholeNumber(form.total) THEN Msg.TotalWhole
    ELSE IF ~isWholeNumber(form.decimals) THEN Msg.DecimalsWhole
    ELSE IF DecimalsOutOfRange(NumberOfDigits(form.decimals)) THEN Msg.DecimalsRange
    ELSE "ok"

\* the click, up to `await algorand.send.assetCreate(...)`.  The handlers are
\* taken to be callable whenever their own loading flag is clear, whatever the
\* other conditions that disable their buttons (canSubmit, canMintNft).
TokenizeClick ==
    /\ mounted
    /\ ~loading
    /\ clock + CreationsInFlight <= MaxCreations
    /\ IF TokenizeCheck # "ok"
       THEN /\ snack' = TokenizeCheck
            /\ UNCHANGED <<loading, tokenizeCall>>
       ELSE /\ loading' = TRUE
            /\ snack' = Msg.Tokenizing
            /\ tokenizeCall' =
                   [pc            |-> "assetCreate",
                    sender        |-> UnifiedActiveAddress,
                    signer        |-> UnifiedSigner,
                    total         |-> OnChainTotal(form.total, NumberOfDigits(form.decimals)),
                    decimals      |-> NumberOfDigits(form.decimals),
                    assetName     |-> form.assetName,
                    unitName      |-> form.unitName,
                    url           |-> form.url,
                    totalTyped    |-> form.total,
                    decimalsTyped |-> form.decimals]
    /\ UNCHANGED <<notAssetVars, form, nftForm, nftLoading, transferForm,
                   transferLoading, createdAssets, storage, mounted, mintCall,
                   transferCall, clock, createdLog>>

\* assetCreate resolved: persistAsset, setCreatedAssets, resetDefaults, finally
TokenizeCreateOk ==
    /\ tokenizeCall.pc = "assetCreate"
    /\ \E assetId \in AssetIds :
        LET newEntry == NewEntry(assetId, tokenizeCall)
            next     == NextAssets(newEntry, loadAssets)
        IN  /\ storage' = [present |-> TRUE, text |-> JSONStringify(next)]
            /\ createdAssets' = next
            /\ createdLog' = Append(createdLog, newEntry)
            /\ transferForm' = SettleTransfer(transferForm, next, FALSE)
    /\ snack' = Msg.TokenizeSuccess
    /\ form' = DefaultForm
    /\ loading' = FALSE
    /\ tokenizeCall' = NoCall
    /\ clock' = clock + 1
    /\ UNCHANGED <<notAssetVars, nftForm, nftLoading, transferLoading, mounted,
                   mintCall, transferCall>>

\* a mutant of TokenizeCreateFail: the record is saved before the chain answers,
\* and stays when the chain rejects
TokenizeCreateFailSaved ==
    /\ tokenizeCall.pc = "assetCreate"
    /\ LET next == NextAssets(NewEntry(0, tokenizeCall), loadAssets)
       IN  /\ storage' = [present |-> TRUE, text |-> JSONStringify(next)]
           /\ createdAssets' = next
    /\ snack' = Msg.TokenizeFailed
    /\ loading' = FALSE
    /\ tokenizeCall' = NoCall
    /\ UNCHANGED <<notAssetVars, form, nftForm, nftLoading, transferForm,
                   transferLoading, mounted, mintCall, transferCall, clock, createdLog>>

\* assetCreate rejected: catch, finally
TokenizeCreateFail ==
    /\ tokenizeCall.pc = "assetCreate"
    /\ snack' = Msg.TokenizeFailed
    /\ loading' = FALSE
    /\ tokenizeCall' = NoCall
    /\ UNCHANGED <<notAssetVars, form, nftForm, nftLoading, transferForm,
                   transferLoading, createdAssets, storage, mounted, mintCall,
                   transferCall, clock, createdLog>>

(***************************************************************************)
(* handleMintNFT (Account.tsx:548-684)                                     *)
(***************************************************************************)
MintCheck ==
    IF UnifiedSigner = NULL \/ UnifiedActiveAddress = NULL THEN Msg.ConnectFirst
    ELSE IF nftForm.selectedFile = NULL THEN Msg.SelectFileFirst
    ELSE IF nftForm.nftName = "" \/ nftForm.nftUnit = "" THEN Msg.NftNameAndUnit
    ELSE IF nftForm.nftSupply = <<>> \/ ~isWholeNumber(nftForm.nftSupply) THEN Msg.SupplyWhole
    ELSE IF nftForm.nftDecimals = <<>> \/ ~isWholeNumber(nftForm.nftDecimals)
         THEN Msg.DecimalsWhole
    ELSE IF DecimalsOutOfRange(NumberOfDigits(nftForm.nftDecimals)) THEN Msg.NftDecimalsRange
    ELSE "ok"

\* the click, up to `await fetch(backendApiUrl, ...)`
MintClick ==
    /\ mounted
    /\ ~nftLoading
    /\ clock + CreationsInFlight <= MaxCreations
    /\ IF MintCheck # "ok"
       THEN /\ snack' = MintCheck
            /\ UNCHANGED <<nftLoading, mintCall>>
       ELSE /\ nftLoading' = TRUE
            /\ snack' = Msg.Uploading
            /\ mintCall' =
                   [pc            |-> "fetch",
                    sender        |-> UnifiedActiveAddress,
                    signer        |-> UnifiedSigner,
                    total         |-> OnChainTotal(nftForm.nftSupply,
                                                   NumberOfDigits(nftForm.nftDecimals)),
                    decimals      |-> NumberOfDigits(nftForm.nftDecimals),
                    assetName     |-> nftForm.nftName,
                    unitName      |-> nftForm.nftUnit,
                    url           |-> "",
                    totalTyped    |-> nftForm.nftSupply,
                    decimalsTyped |-> nftForm.nftDecimals]
    /\ UNCHANGED <<notAssetVars, form, loading, nftForm, transferForm,
                   transferLoading, createdAssets, storage, mounted, tokenizeCall,
                   transferCall, clock, createdLog>>

\* what `await fetch(...)` and `await response.json()` can give: a rejection,
\* or a response with its status and the metadataUrl of its body
RelayAnswers ==
    {[rejected |-> TRUE, ok |-> FALSE, metadataUrl |-> UNDEFINED],
     [rejected |-> FALSE, ok |-> FALSE, metadataUrl |-> UNDEFINED],
     [rejected |-> FALSE, ok |-> TRUE, metadataUrl |-> UNDEFINED],
     [rejected |-> FALSE, ok |-> TRUE, metadataUrl |-> ""],
     [rejected |-> FALSE, ok |-> TRUE, metadataUrl |-> "ipfs://metadata"]}

\* a mutant of RelayGaveUrl: the body of an ok response is not looked at
RelayStatusOk(answer) == ~answer.rejected /\ answer.ok

\* neither throw of the upload try is taken (Account.tsx:596-603)
RelayGaveUrl(answer) ==
    /\ ~answer.rejected
    /\ answer.ok
    /\ answer.metadataUrl \notin {UNDEFINED, ""}

\* the relay answered 200 with a metadataUrl: assetCreate is sent
MintRelayOk ==
    /\ mintCall.pc = "fetch"
    /\ \E answer \in RelayAnswers :
        /\ RelayGaveUrl(answer)
        /\ mintCall' = [mintCall EXCEPT !.pc = "assetCreate",
                                        !.url = answer.metadataUrl]
    /\ snack' = Msg.Minting
    /\ UNCHANGED <<notAssetVars, form, loading, nftForm, nftLoading, transferForm,
                   transferLoading, createdAssets, storage, mounted, tokenizeCall,
                   transferCall, clock, createdLog>>

\* a mutant of MintRelayFail: the upload's catch returns without
\* setNftLoading(false)
MintRelayFailKeepsFlag ==
    /\ mintCall.pc = "fetch"
    /\ \E answer \in RelayAnswers : ~RelayGaveUrl(answer)
    /\ snack' = Msg.UploadError
    /\ mintCall' = NoCall
    /\ UNCHANGED <<notAssetVars, form, loading, nftForm, nftLoading, transferForm,
                   transferLoading, createdAssets, storage, mounted, tokenizeCall,
                   transferCall, clock, createdLog>>

\* fetch rejected, the status was not ok, or the body had no metadataUrl
MintRelayFail ==
    /\ mintCall.pc = "fetch"
    /\ \E answer \in RelayAnswers : ~RelayGaveUrl(answer)
    /\ snack' = Msg.UploadError
    /\ nftLoading' = FALSE
    /\ mintCall' = NoCall
    /\ UNCHANGED <<notAssetVars, form, loading, nftForm, transferForm,
                   transferLoading, createdAssets, storage, mounted, tokenizeCall,
                   transferCall, clock, createdLog>>

\* assetCreate resolved: the NFT goes into the same history
MintCreateOk ==
    /\ mintCall.pc = "assetCreate"
    /\ \E assetId \in AssetIds :
        LET nftEntry == NewEntry(assetId, mintCall)
            next     == NextAssets(nftEntry, loadAssets)
        IN  /\ storage' = [present |-> TRUE, text |-> JSONStringify(next)]
            /\ createdAssets' = next
            /\ createdLog' = Append(createdLog, nftEntry)
            /\ transferForm' =
                   SettleTransfer([transferForm EXCEPT !.transferMode = "manual",
                                                       !.transferAssetId = DigitsOfNat(assetId)],
                                  next, transferForm.transferMode # "manual")
    /\ snack' = Msg.MintSuccess
    /\ nftForm' = [nftForm EXCEPT !.selectedFile = NULL]
    /\ nftLoading' = FALSE
    /\ mintCall' = NoCall
    /\ clock' = clock + 1
    /\ UNCHANGED <<notAssetVars, form, loading, transferLoading, mounted,
                   tokenizeCall, transferCall>>

\* assetCreate rejected: catch, finally
MintCreateFail ==
    /\ mintCall.pc = "assetCreate"
    /\ snack' = Msg.MintFailed
    /\ nftLoading' = FALSE
    /\ mintCall' = NoCall
    /\ UNCHANGED <<notAssetVars, form, loading, nftForm, transferForm,
                   transferLoading, createdAssets, storage, mounted, tokenizeCall,
                   transferCall, clock, createdLog>>

(***************************************************************************)
(* handleTransferAsset (Account.tsx:397-535)                               *)
(***************************************************************************)
TransferCheck ==
    LET tf == transferForm IN
    IF UnifiedSigner = NULL \/ UnifiedActiveAddress = NULL THEN Msg.ConnectFirst
    ELSE IF tf.receiverAddress = "" THEN Msg.EnterRecipient
    ELSE IF AmountNotPositive(tf.transferAmount) THEN Msg.AmountGreaterThanZero
    ELSE IF tf.transferMode = "manual"
            /\ (tf.transferAssetId = <<>> \/ ~isWholeNumber(tf.transferAssetId))
         THEN Msg.ValidAssetId
    ELSE IF tf.transferMode = "manual" /\ ~isWholeNumber(tf.transferAmount)
         THEN Msg.AmountWhole
    ELSE IF tf.transferMode \in {"algo", "usdc"}
            /\ ~TestAmountPattern(Trim(tf.transferAmount))
         THEN Msg.AmountValidNumber
    ELSE "ok"

\* the click, up to the await of payment / assetTransfer; decimalToBaseUnits
\* throwing inside the try goes to the catch and the finally at once
TransferClick ==
    /\ mounted
    /\ ~transferLoading
    /\ LET tf   == transferForm
           base == decimalToBaseUnits(tf.transferAmount,
                       IF tf.transferMode = "algo" THEN ALGO_DECIMALS ELSE USDC_DECIMALS)
       IN  IF TransferCheck # "ok"
           THEN /\ snack' = TransferCheck
                /\ UNCHANGED <<transferLoading, transferCall>>
           ELSE IF tf.transferMode \in {"algo", "usdc"} /\ ~base.ok
           THEN /\ snack' = IF tf.transferMode = "algo" THEN Msg.AlgoSendFailed ELSE Msg.TransferFailed
                /\ UNCHANGED <<transferLoading, transferCall>>
           ELSE /\ transferLoading' = TRUE
                /\ snack' = CASE tf.transferMode = "algo" -> Msg.SendingAlgo
                              [] tf.transferMode = "usdc" -> Msg.SendingUsdc
                              [] OTHER -> Msg.Transferring
                /\ transferCall' =
                       CASE tf.transferMode = "algo" ->
                                [pc |-> "payment", mode |-> "algo",
                                 sender |-> UnifiedActiveAddress, signer |-> UnifiedSigner,
                                 receiver |-> tf.receiverAddress,
                                 assetIdTyped |-> tf.transferAssetId,
                                 amountTyped |-> tf.transferAmount,
                                 assetId |-> ALGO,
                                 amount |-> NumberOfBigInt(base.val)]
                         [] tf.transferMode = "usdc" ->
                                [pc |-> "assetTransfer", mode |-> "usdc",
                                 sender |-> UnifiedActiveAddress, signer |-> UnifiedSigner,
                                 receiver |-> tf.receiverAddress,
                                 assetIdTyped |-> tf.transferAssetId,
                                 amountTyped |-> tf.transferAmount,
                                 assetId |-> USDC_ID_TEXT,
                                 amount |-> base.val]
                         [] OTHER ->
                                [pc |-> "assetTransfer", mode |-> "manual",
                                 sender |-> UnifiedActiveAddress, signer |-> UnifiedSigner,
                                 receiver |-> tf.receiverAddress,
                                 assetIdTyped |-> tf.transferAssetId,
                                 amountTyped |-> tf.transferAmount,
                                 assetId |-> StripLeadingZeros(tf.transferAssetId),
                                 amount |-> BigIntOf(tf.transferAmount)]
    /\ UNCHANGED <<notAssetVars, form, loading, nftForm, nftLoading, transferForm,
                   createdAssets, storage, mounted, tokenizeCall, mintCall, clock,
                   createdLog>>

\* payment / assetTransfer resolved
TransferOk ==
    /\ transferCall.pc \in {"payment", "assetTransfer"}
    /\ snack' = Msg.TransferDone
    /\ transferForm' = [transferForm EXCEPT !.receiverAddress = "",
                                            !.transferAmount = <<"1">>]
    /\ transferLoading' = FALSE
    /\ transferCall' = NoCall
    /\ UNCHANGED <<notAssetVars, form, loading, nftForm, nftLoading, createdAssets,
                   storage, mounted, tokenizeCall, mintCall, clock, createdLog>>

\* payment / assetTransfer rejected: catch, finally
TransferFail ==
    /\ transferCall.pc \in {"payment", "assetTransfer"}
    /\ snack' = IF transferCall.mode = "algo" THEN Msg.AlgoSendFailed ELSE Msg.TransferFailed
    /\ transferLoading' = FALSE
    /\ transferCall' = NoCall
    /\ UNCHANGED <<notAssetVars, form, loading, nftForm, nftLoading, transferForm,
                   createdAssets, storage, mounted, tokenizeCall, mintCall, clock,
                   createdLog>>

(***************************************************************************)
(* Mount, the transfer mode radios, and the Clear button.                  *)
(***************************************************************************)
\* useEffect(() => setCreatedAssets(loadAssets()), []) and the form effects
AssetsMount ==
    /\ ~mounted
    /\ mounted' = TRUE
    /\ createdAssets' = loadAssets
    /\ transferForm' = SettleTransfer(transferForm, loadAssets, TRUE)
    /\ UNCHANGED <<notAssetVars, form, loading, nftForm, nftLoading, transferLoading,
                   storage, tokenizeCall, mintCall, transferCall, snack, clock,
                   createdLog>>

SetTransferMode(mode) ==
    /\ mounted
    /\ mode # transferForm.transferMode
    /\ transferForm' = SettleTransfer([transferForm EXCEPT !.transferMode = mode],
                                      createdAssets, TRUE)
    /\ UNCHANGED <<notAssetVars, form, loading, nftForm, nftLoading, transferLoading,
                   createdAssets, storage, mounted, tokenizeCall, mintCall,
                   transferCall, snack, clock, createdLog>>

\* Clear: localStorage.removeItem(STORAGE_KEY); setCreatedAssets([])
ClearHistory ==
    /\ mounted
    /\ storage.present \/ createdAssets # <<>>
    /\ storage' = NoItem
    /\ createdAssets' = <<>>
    /\ createdLog' = <<>>
    /\ UNCHANGED <<notAssetVars, form, loading, nftForm, nftLoading, transferForm,
                   transferLoading, mounted, tokenizeCall, mintCall, transferCall,
                   snack, clock>>

\* handleFileChange: a file was picked, or the picker was emptied
handleFileChange(file) ==
    /\ mounted
    /\ file # nftForm.selectedFile
    /\ nftForm' = [nftForm EXCEPT !.selectedFile = file]
    /\ UNCHANGED <<notAssetVars, form, loading, nftLoading, transferForm,
                   transferLoading, createdAssets, storage, mounted, tokenizeCall,
                   mintCall, transferCall, snack, clock, createdLog>>

(***************************************************************************)
(* The page with the asset forms: the wallet providers have settled, and   *)
(* the visitor has filled in one of the three forms.                       *)
(***************************************************************************)
\* a record an earlier visit left in localStorage
EarlierAsset ==
    [assetId |-> 1000, assetName |-> "Earlier", unitName |-> "OLD",
     total |-> <<"5">>, decimals |-> <<"0">>, createdAt |-> 0]

FileInputs == {NULL, "image.png"}
FormInputs ==
    [assetName : {"", "Gold Bar"},
     unitName  : {"", "GLD"},
     total     : {<<>>, <<"2", "5">>, <<"0", "0", "7">>, <<"1", ".", "5">>, <<"-", "1">>},
     decimals  : {<<>>, <<"2">>, <<"1", "9">>, <<"2", "0">>, <<"0", "0", "7">>,
                  <<"1", ".", "5">>},
     url       : {"", "https://example.org/gold"}]

NftFormInputs ==
    [selectedFile : FileInputs,
     nftName      : {"", "Gold Bar"},
     nftUnit      : {"", "GLD"},
     nftSupply    : {<<>>, <<"1">>, <<"1", "e", "3">>},
     nftDecimals  : {<<>>, <<"0">>, <<"2", "0">>, <<" ", "1">>}]

TransferFormInputs ==
    [transferMode    : {"manual"},
     transferAssetId : {<<>>, <<"1", "0", "0", "0">>, <<"1", "2", "x">>},
     receiverAddress : {"", "ADDR_RECEIVER"},
     transferAmount  :
         {<<>>, <<"0">>, <<"3">>, <<"1", ".", "5">>, <<"0", ".", "0">>, <<"-", "1">>,
          <<"1", "e", "3">>, <<" ", "2", " ">>,
          <<"0", ".", "1", "2", "3", "4", "5", "6", "7">>,
          <<"9", "0", "0", "7", "1", "9", "9", "2", "5", "4", "7", "4", "0", "9", "9", "3">>}]

\* both providers idle, with or without a session
WalletSettled ==
    /\ clientId = "CLIENT_ID"
    /\ web3authInstance = "web3auth"
    /\ web3AuthInstance = "web3auth"
    /\ isInitialized = TRUE
    /\ isLoading = FALSE
    /\ error = NULL
    /\ initPc = "done"
    /\ loginPc = "idle"
    /\ logoutPc = "idle"
    /\ reloadPending = FALSE
    /\ tradConnecting = NULL
    /\ disconnectCall = NoDisconnect
    /\ activeWallet \in {NULL, "pera"}
    /\ \/ /\ isConnected = TRUE
          /\ sdkStatus = "connected"
          /\ sdkSession = TRUE
          /\ provider = "provider"
          /\ algorandAccount = "account"
          /\ userInfo = "userInfo"
       \/ /\ isConnected = FALSE
          /\ sdkStatus = "ready"
          /\ sdkSession = FALSE
          /\ provider = NULL
          /\ algorandAccount = NULL
          /\ userInfo = NULL

AssetsInit ==
    /\ \/ form \in FormInputs /\ nftForm = DefaultNftForm
          /\ transferForm = DefaultTransferForm
       \/ form = DefaultForm /\ nftForm \in NftFormInputs
          /\ transferForm = DefaultTransferForm
       \/ form = DefaultForm /\ nftForm = DefaultNftForm
          /\ transferForm \in TransferFormInputs
    /\ storage \in {NoItem, [present |-> TRUE, text |-> <<EarlierAsset>>]}
    /\ createdLog = Reverse(storage.text)
    /\ createdAssets = <<>>
    /\ mounted = FALSE
    /\ loading = FALSE
    /\ nftLoading = FALSE
    /\ transferLoading = FALSE
    /\ tokenizeCall = NoCall
    /\ mintCall = NoCall
    /\ transferCall = NoCall
    /\ snack = ""
    /\ clock = 1

\* the asset page is not open
AssetsAtRest ==
    /\ form = DefaultForm
    /\ nftForm = DefaultNftForm
    /\ transferForm = DefaultTransferForm
    /\ storage = NoItem
    /\ createdLog = <<>>
    /\ createdAssets = <<>>
    /\ mounted = FALSE
    /\ loading = FALSE
    /\ nftLoading = FALSE
    /\ transferLoading = FALSE
    /\ tokenizeCall = NoCall
    /\ mintCall = NoCall
    /\ transferCall = NoCall
    /\ snack = ""
    /\ clock = 1

AssetsNext ==
    \/ AssetsMount
    \/ TokenizeClick \/ TokenizeCreateOk \/ TokenizeCreateFail
    \/ \E file \in FileInputs : handleFileChange(file)
    \/ MintClick \/ MintRelayOk \/ MintRelayFail \/ MintCreateOk \/ MintCreateFail
    \/ \E mode \in {"manual", "algo", "usdc"} : SetTransferMode(mode)
    \/ TransferClick \/ TransferOk \/ TransferFail
    \/ ClearHistory

(***************************************************************************)
(* The NFT mint relay (app.js; app.ts carries the same CORS decision and   *)
(* the same POST /api/pin-image handler).  One request is in the server at *)
(* a time; its origin, file and text fields are drawn when it arrives.     *)
(***************************************************************************)

\* ALLOWED_ORIGINS after split(','), trim and filter(Boolean)
AllowLists == {{}, {<<"h", "t", "t", "p", "s", ":", "/", "/", "a", "p", "p", ".", "e", "x", "a", "m", "p", "l", "e">>}, {<<"h", "t", "t", "p", "s", ":", "/", "/", "a", "p", "p", ".", "e", "x", "a", "m", "p", "l", "e">>, <<"h", "t", "t", "p", "s", ":", "/", "/", "e", "v", "i", "l", "v", "e", "r", "c", "e", "l", ".", "a", "p", "p">>}, {<<"*">>}}

\* the Origin headers that arrive (present = FALSE: no header)
OriginHeaders ==
    {[present |-> FALSE, text |-> <<>>]} \cup
    {[present |-> TRUE, text |-> o] : o \in {<<>>,
        <<"h", "t", "t", "p", ":", "/", "/", "l", "o", "c", "a", "l", "h", "o", "s", "t", ":", "5", "1", "7", "3">>,
        <<"h", "t", "t", "p", ":", "/", "/", "l", "o", "c", "a", "l", "h", "o", "s", "t", ":", "3", "0", "0", "0">>,
        <<"h", "t", "t", "p", "s", ":", "/", "/", "a", "p", "p", ".", "e", "x", "a", "m", "p", "l", "e">>,
        <<"h", "t", "t", "p", "s", ":", "/", "/", "m", "y", ".", "v", "e", "r", "c", "e", "l", ".", "a", "p", "p">>,
        <<"h", "t", "t", "p", "s", ":", "/", "/", "m", "y", ".", "v", "e", "r", "c", "e", "l", ".", "a", "p", "p", ":", "8", "4", "4", "3">>,
        <<"h", "t", "t", "p", "s", ":", "/", "/", "e", "v", "i", "l", "v", "e", "r", "c", "e", "l", ".", "a", "p", "p">>,
        <<"h", "t", "t", "p", "s", ":", "/", "/", "v", "e", "r", "c", "e", "l", ".", "a", "p", "p">>,
        <<"h", "t", "t", "p", "s", ":", "/", "/", "m", "y", ".", "v", "e", "r", "c", "e", "l", ".", "a", "p", "p", ".", "e", "v", "i", "l", ".", "i", "o">>,
        <<"m", "y", ".", "v", "e", "r", "c", "e", "l", ".", "a", "p", "p">>,
        <<"n", "u", "l", "l">>}}

\* s.endsWith(t)
EndsWith(s, t) == Len(s) >= Len(t) /\ SubSeq(s, Len(s) - Len(t) + 1, Len(s)) = t

\* the first position of one of the characters cs in s at or after from; Len(s) + 1 if none
FirstOf(s, cs, from) ==
    IF \E i \in from..Len(s) : s[i] \in cs
    THEN CHOOSE i \in from..Len(s) : s[i] \in cs /\ \A j \in from..(i - 1) : s[j] \notin cs
    ELSE Len(s) + 1

\* new URL(origin).hostname for lower-case input: ok = FALSE where the constructor throws
UrlHostname(origin) ==
    LET colon == FirstOf(origin, {":"}, 1)
        letters == {"a", "b", "c", "d", "e", "f", "g", "h", "i", "j", "k", "l", "m",
                    "n", "o", "p", "q", "r", "s", "t", "u", "v", "w", "x", "y", "z"}
        schemeOk == /\ 1 < colon /\ colon <= Len(origin)
                    /\ origin[1] \in letters
                    /\ \A i \in 2..(colon - 1) : origin[i] \in letters \cup Digits \cup {"+", "-", "."}
        slashes == colon + 2 <= Len(origin) /\ origin[colon + 1] = "/" /\ origin[colon + 2] = "/"
        stop == FirstOf(origin, {"/", "?", "#"}, colon + 3)
        authority == SubSeq(origin, colon + 3, stop - 1)
        at == FirstOf(authority, {"@"}, 1)
        hostport == IF at <= Len(authority) THEN SubSeq(authority, at + 1, Len(authority)) ELSE authority
        port == FirstOf(hostport, {":"}, 1)
        host == SubSeq(hostport, 1, port - 1)
        portOk == \A i \in (port + 1)..Len(hostport) : hostport[i] \in Digits
    IN  IF ~schemeOk THEN [ok |-> FALSE, hostname |-> <<>>]
        ELSE IF ~slashes THEN [ok |-> TRUE, hostname |-> <<>>]
        ELSE IF host = <<>> \/ ~portOk THEN [ok |-> FALSE, hostname |-> <<>>]
        ELSE [ok |-> TRUE, hostname |-> host]

\* a mutant of isAllowedOrigin: the suffix is matched without its leading dot
isAllowedOriginNoDot(allowed, origin) ==
    \/ <<"*">> \in allowed
    \/ origin \in allowed
    \/ origin = <<"h", "t", "t", "p", ":", "/", "/", "l", "o", "c", "a", "l", "h", "o", "s", "t", ":", "5", "1", "7", "3">>
    \/ UrlHostname(origin).ok /\ EndsWith(UrlHostname(origin).hostname, <<"v", "e", "r", "c", "e", "l", ".", "a", "p", "p">>)

isAllowedOrigin(allowed, origin) ==
    \/ <<"*">> \in allowed
    \/ origin \in allowed
    \/ origin = <<"h", "t", "t", "p", ":", "/", "/", "l", "o", "c", "a", "l", "h", "o", "s", "t", ":", "5", "1", "7", "3">>
    \/ UrlHostname(origin).ok /\ EndsWith(UrlHostname(origin).hostname, <<".", "v", "e", "r", "c", "e", "l", ".", "a", "p", "p">>)

\* corsOptions.origin: TRUE for cb(null, true), FALSE for cb(new Error(...))
corsOrigin(allowed, header) ==
    \/ ~header.present
    \/ header.text = <<>>
    \/ isAllowedOrigin(allowed, header.text)

\* a multipart text field: given = FALSE when the field is not in the body
TextFields == {[given |-> FALSE, text |-> <<>>], [given |-> TRUE, text |-> <<" ">>],
               [given |-> TRUE, text |-> <<" ", "D", "e", "e", "d">>]}

safeTrim(v) == IF v.given THEN Trim(v.text) ELSE <<>>

\* safeJsonParse(v, {}): the properties field is absent, blank, not JSON, or JSON
safeJsonParse(v) == IF v \in {"absent", "blank", "malformed"} THEN "{}" ELSE v

RelayRequests ==
    [origin : OriginHeaders, file : {UNDEFINED, "deed.png", "plot.png"},
     metaName : TextFields, metaDescription : TextFields,
     properties : {"absent", "malformed", "{\"kind\":\"land\"}"}]

NoRequest ==
    [origin |-> [present |-> FALSE, text |-> <<>>], file |-> UNDEFINED,
     metaName |-> [given |-> FALSE, text |-> <<>>],
     metaDescription |-> [given |-> TRUE, text |-> <<" ">>], properties |-> "absent"]

\* what pinFileToIPFS / pinJSONToIPFS throw: error.response.data.error, error.response.data, error.message
PinErrors ==
    [respError : {UNDEFINED, "", "INVALID_CREDENTIALS"}, respData : {UNDEFINED, "Bad Gateway"},
     message : {UNDEFINED, "", "socket hang up"}]

\* error?.response?.data?.error || error?.response?.data || error?.message || 'Failed to pin to IPFS.'
PinErrorMsg(e) ==
    IF e.respError \notin {UNDEFINED, ""} THEN e.respError
    ELSE IF e.respData \notin {UNDEFINED, ""} THEN e.respData
    ELSE IF e.message \notin {UNDEFINED, ""} THEN e.message
    ELSE "Failed to pin to IPFS."

\* the content hash the pinning service answers with (IpfsHash)
IpfsHash(content) == <<"Qm", content>>

IpfsUrl(hash) == <<"ipfs://", hash>>

\* the metadata document built from the request and the pinned image
PinMetadata(req, imageHash) ==
    [name |-> IF safeTrim(req.metaName) = <<>> THEN <<"N", "F", "T", " ", "E", "x", "a", "m", "p", "l", "e">> ELSE safeTrim(req.metaName),
     description |-> IF safeTrim(req.metaDescription) = <<>> THEN <<"P", "i", "n", "n", "e", "d", " ", "v", "i", "a", " ", "T", "o", "k", "e", "n", "i", "z", "e", "R", "W", "A", " ", "t", "e", "m", "p", "l", "a", "t", "e">> ELSE safeTrim(req.metaDescription),
     image |-> IpfsUrl(imageHash),
     properties |-> safeJsonParse(req.properties)]

RelayInit ==
    /\ explicitAllowed \in AllowLists
    /\ relayReq = NoRequest
    /\ relayPc = "idle"
    /\ relayRes = <<>>
    /\ pinCalls = <<>>

\* the relay is not running
RelayAtRest ==
    /\ explicitAllowed = {}
    /\ relayReq = NoRequest
    /\ relayPc = "idle"
    /\ relayRes = <<>>
    /\ pinCalls = <<>>

\* cors() hands the error to Express, which answers 500 without running the route
RelayCorsBlocked(req) ==
    /\ relayPc = "idle"
    /\ ~corsOrigin(explicitAllowed, req.origin)
    /\ relayReq' = req
    /\ relayRes' = <<[status |-> 500, body |-> [corsBlocked |-> req.origin.text]]>>
    /\ pinCalls' = <<>>
    /\ relayPc' = "done"
    /\ UNCHANGED <<explicitAllowed, notRelayVars>>

\* a mutant of PinImage: the file is pinned without the check that there is one
PinImageUnchecked(req) ==
    /\ relayPc = "idle"
    /\ corsOrigin(explicitAllowed, req.origin)
    /\ relayReq' = req
    /\ relayRes' = <<>>
    /\ pinCalls' = <<[call |-> "pinFileToIPFS", content |-> req.file]>>
    /\ relayPc' = "pinFile"
    /\ UNCHANGED <<explicitAllowed, notRelayVars>>

\* POST /api/pin-image, up to its first await
PinImage(req) ==
    /\ relayPc = "idle"
    /\ corsOrigin(explicitAllowed, req.origin)
    /\ relayReq' = req
    /\ IF req.file = UNDEFINED
       THEN /\ relayRes' = <<[status |-> 400, body |-> [error |-> "No file uploaded"]]>>
            /\ pinCalls' = <<>>
            /\ relayPc' = "done"
       ELSE /\ relayRes' = <<>>
            /\ pinCalls' = <<[call |-> "pinFileToIPFS", content |-> req.file]>>
            /\ relayPc' = "pinFile"
    /\ UNCHANGED <<explicitAllowed, notRelayVars>>

\* pinFileToIPFS resolved: the metadata is built and pinJSONToIPFS called
PinFileOk ==
    /\ relayPc = "pinFile"
    /\ pinCalls' = Append(pinCalls, [call |-> "pinJSONToIPFS",
                                     content |-> PinMetadata(relayReq, IpfsHash(relayReq.file))])
    /\ relayPc' = "pinJson"
    /\ UNCHANGED <<explicitAllowed, relayReq, relayRes, notRelayVars>>

\* pinJSONToIPFS resolved
PinJsonOk ==
    /\ relayPc = "pinJson"
    /\ relayRes' = Append(relayRes, [status |-> 200,
                                     body |-> [metadataUrl |-> IpfsUrl(IpfsHash(pinCalls[2].content))]])
    /\ relayPc' = "done"
    /\ UNCHANGED <<explicitAllowed, relayReq, pinCalls, notRelayVars>>

\* either pin rejected: the catch block
PinFailed(e) ==
    /\ relayPc \in {"pinFile", "pinJson"}
    /\ relayRes' = Append(relayRes, [status |-> 500, body |-> [error |-> PinErrorMsg(e)]])
    /\ relayPc' = "done"
    /\ UNCHANGED <<explicitAllowed, relayReq, pinCalls, notRelayVars>>

\* the response is written and the server takes the next request
RelayResponded ==
    /\ relayPc = "done"
    /\ relayReq' = NoRequest
    /\ relayRes' = <<>>
    /\ pinCalls' = <<>>
    /\ relayPc' = "idle"
    /\ UNCHANGED <<explicitAllowed, notRelayVars>>

RelayNext ==
    \/ RelayResponded
    \/ \E req \in RelayRequests : RelayCorsBlocked(req)
    \/ \E req \in RelayRequests : PinImage(req)
    \/ PinFileOk
    \/ PinJsonOk
    \/ \E e \in PinErrors : PinFailed(e)

(***************************************************************************)
(* initWeb3Auth, called any number of times by callers that interleave at  *)
(* its one await.                                                          *)
(***************************************************************************)
MaxCallers == 4

Callers == 1..MaxCallers

NoInitCall == [pc |-> "idle", value |-> NULL]

\* the n-th instance that `new Web3Auth(...)` makes in one page
NthInstance(n) == IF n = 1 THEN "web3auth" ELSE "web3auth" \o ToString(n)

\* no call has been made
CallsAtRest ==
    /\ initCalls = [c \in Callers |-> NoInitCall]
    /\ constructed = 0

CallsInit ==
    /\ WalletInit
    /\ activeWallet = NULL
    /\ CallsAtRest

\* a mutant of InitCall: the module's instance is not looked at first
InitCallUnmemoized(c) ==
    /\ initCalls[c].pc # "initModal"
    /\ clientId # NULL
    /\ constructed < MaxCallers
    /\ constructed' = constructed + 1
    /\ web3authInstance' = NthInstance(constructed + 1)
    /\ sdkStatus' = "not_ready"
    /\ initCalls' = [initCalls EXCEPT ![c] = [pc |-> "initModal", value |-> NULL]]
    /\ UNCHANGED notCallVars

\* initWeb3Auth() up to its await, by a caller with no call outstanding
InitCall(c) ==
    /\ initCalls[c].pc # "initModal"
    /\ IF web3authInstance # NULL
       THEN /\ initCalls' = [initCalls EXCEPT ![c] = [pc |-> "returned", value |-> web3authInstance]]
            /\ UNCHANGED <<web3authInstance, sdkStatus, constructed>>
       ELSE IF clientId = NULL
       THEN /\ initCalls' = [initCalls EXCEPT ![c] = [pc |-> "threw", value |-> Err.ClientIdNotConfigured]]
            /\ UNCHANGED <<web3authInstance, sdkStatus, constructed>>
       ELSE /\ constructed' = constructed + 1
            /\ web3authInstance' = NthInstance(constructed + 1)
            /\ sdkStatus' = "not_ready"
            /\ initCalls' = [initCalls EXCEPT ![c] = [pc |-> "initModal", value |-> NULL]]
    /\ UNCHANGED notCallVars

\* await web3authInstance.initModal() resolves: return web3authInstance
InitCallResolved(c) ==
    /\ initCalls[c].pc = "initModal"
    /\ sdkStatus' = IF sdkSession THEN "connected" ELSE "ready"
    /\ initCalls' = [initCalls EXCEPT ![c] = [pc |-> "returned", value |-> web3authInstance]]
    /\ UNCHANGED <<web3authInstance, constructed, notCallVars>>

\* initModal() rejects: the catch rethrows
InitCallRejected(c) ==
    /\ initCalls[c].pc = "initModal"
    /\ initCalls' = [initCalls EXCEPT ![c] = [pc |-> "threw", value |-> Err.InitModalError]]
    /\ UNCHANGED <<web3authInstance, sdkStatus, constructed, notCallVars>>

CallsNext ==
    \/ \E c \in Callers : InitCall(c)
    \/ \E c \in Callers : InitCallResolved(c)
    \/ \E c \in Callers : InitCallRejected(c)

(***************************************************************************)
(* ConnectWallet.handleConnect (unnamed/part_007).  Time is counted in     *)
(* units of 10 s while the handler stands at an await on the wallet or the *)
(* SDK, which may answer at any time or never.                             *)
(***************************************************************************)
\* setTimeout(..., 30000), in units of 10 s
CONNECT_TIMEOUT == 3

\* the count of `awaited` stops here
MaxWait == 5

\* String.prototype.includes on character sequences
Includes(s, sub) ==
    \E i \in 1..(Len(s) - Len(sub) + 1) : SubSeq(s, i, i + Len(sub) - 1) = sub

\* the characters of a message as one string, for interpolation
RECURSIVE TextOf(_)
TextOf(s) ==
    IF Len(s) = 0 THEN ""
    ELSE IF Len(s) = 1 THEN s[1]
    ELSE TextOf(SubSeq(s, 1, Len(s) \div 2)) \o TextOf(SubSeq(s, Len(s) \div 2 + 1, Len(s)))

\* the message of the Error the 30 s timer rejects with (part_007 77-81)
TIMEOUT_MESSAGE ==
    <<"W", "e", "b", "3", "A", "u", "t", "h", " ", "c", "o", "n", "n", "e", "c", "t", "i", "o", "n", " ", "t", "i", "m", "e", "d", " ", "o", "u", "t", " ", "a", "f", "t", "e", "r", " ", "3", "0", " ", "s", "e", "c", "o", "n", "d", "s", ".", " ", "T", "h", "e", " ", "m", "o", "d", "a", "l", " ", "m", "a", "y", " ", "n", "o", "t", " ", "h", "a", "v", "e", " ", "o", "p", "e", "n", "e", "d", ".", " ", "C", "h", "e", "c", "k", " ", "b", "r", "o", "w", "s", "e", "r", " ", "c", "o", "n", "s", "o", "l", "e", " ", "f", "o", "r", " ", "W", "e", "b", "3", "A", "u", "t", "h", " ", "i", "n", "i", "t", "i", "a", "l", "i", "z", "a", "t", "i", "o", "n", " ", "e", "r", "r", "o", "r", "s", ".">>

\* messages wallet.connect() may reject with
ConnectErrors ==
    {<<"I", "n", "v", "a", "l", "i", "d", " ", "c", "l", "i", "e", "n", "t", "I", "d">>,
     <<"N", "e", "t", "w", "o", "r", "k", " ", "r", "e", "q", "u", "e", "s", "t", " ", "f", "a", "i", "l", "e", "d">>,
     <<"R", "e", "q", "u", "e", "s", "t", " ", "t", "i", "m", "e", "o", "u", "t">>,
     <<"U", "s", "e", "r", " ", "c", "l", "o", "s", "e", "d", " ", "t", "h", "e", " ", "m", "o", "d", "a", "l">>}

\* the catch of handleConnect: msg to the text given to setLastError
ConnectErrorText(id, msg) ==
    IF id = "web3auth"
    THEN IF Includes(msg, <<"c", "l", "i", "e", "n", "t", "I", "d">>) \/ Includes(msg, <<"C", "l", "i", "e", "n", "t", " ", "I", "D">>)
         THEN "Web3Auth Client ID is missing or invalid. Check your .env file."
         ELSE IF Includes(msg, <<"n", "e", "t", "w", "o", "r", "k">>) \/ Includes(msg, <<"N", "e", "t", "w", "o", "r", "k">>)
         THEN "Web3Auth network configuration error. Check your network settings."
         ELSE IF Includes(msg, <<"t", "i", "m", "e", "o", "u", "t">>)
         THEN "Web3Auth connection timed out. The login modal may not have opened. Check browser console for Web3Auth errors."
         ELSE "Web3Auth connection failed: " \o TextOf(msg)
    ELSE "Failed to connect " \o id \o ": " \o TextOf(msg)

\* the modal is closed, no attempt is running
ConnectAtRest ==
    /\ connectingId = NULL
    /\ lastError = ""
    /\ connectPc = "idle"
    /\ awaited = 0
    /\ walletSdk = [found |-> FALSE, status |-> "not_ready"]
    /\ openModal = FALSE

ConnectInit ==
    /\ connectingId = NULL
    /\ lastError = ""
    /\ connectPc = "idle"
    /\ awaited = 0
    /\ walletSdk \in [found : BOOLEAN, status : {"not_ready", "ready", "connected"}]
    /\ openModal = TRUE

\* handleConnect(wallet) up to its first await
ConnectClick(id) ==
    /\ connectingId = NULL
    /\ openModal
    /\ connectingId' = id
    /\ lastError' = ""
    /\ awaited' = 0
    /\ connectPc' = IF id = "web3auth" /\ walletSdk.found
                    THEN IF walletSdk.status # "ready" THEN "init" ELSE "connect"
                    ELSE "walletConnect"
    /\ UNCHANGED <<walletSdk, openModal, notConnectVars>>

\* await web3AuthInstance.init() settles
SdkInitSettles(ok) ==
    /\ connectPc = "init"
    /\ awaited' = 0
    /\ IF ~ok
       THEN /\ lastError' = "Web3Auth initialization failed"
            /\ connectingId' = NULL
            /\ connectPc' = "idle"
            /\ UNCHANGED walletSdk
       ELSE /\ \E status \in {"ready", "connected"} :
                  /\ walletSdk' = [walletSdk EXCEPT !.status = status]
                  /\ connectPc' = IF status = "ready" THEN "connect" ELSE "walletConnect"
            /\ UNCHANGED <<lastError, connectingId>>
    /\ UNCHANGED <<openModal, notConnectVars>>

\* await web3AuthInstance.connect() settles
SdkConnectSettles(ok) ==
    /\ connectPc = "connect"
    /\ awaited' = 0
    /\ IF ok
       THEN /\ walletSdk' = [walletSdk EXCEPT !.status = "connected"]
            /\ openModal' = FALSE
            /\ connectingId' = NULL
            /\ connectPc' = "idle"
       ELSE /\ connectPc' = "walletConnect"
            /\ UNCHANGED <<walletSdk, openModal, connectingId>>
    /\ UNCHANGED <<lastError, notConnectVars>>

\* a mutant of WalletConnectSettles: a rejected wallet.connect() is called again
WalletConnectRetried(ok) ==
    /\ connectPc = "walletConnect"
    /\ awaited' = 0
    /\ connectPc' = IF ok THEN "verify" ELSE "walletConnect"
    /\ awaited # 0 \/ ok
    /\ UNCHANGED <<lastError, connectingId, walletSdk, openModal, notConnectVars>>

\* wallet.connect() settles before the timer
WalletConnectSettles(ok) ==
    /\ connectPc = "walletConnect"
    /\ awaited' = 0
    /\ IF ok
       THEN /\ connectPc' = "verify"
            /\ UNCHANGED <<lastError, connectingId>>
       ELSE /\ \E msg \in ConnectErrors : lastError' = ConnectErrorText(connectingId, msg)
            /\ connectingId' = NULL
            /\ connectPc' = "idle"
    /\ UNCHANGED <<walletSdk, openModal, notConnectVars>>

\* the 30 s timer wins Promise.race
ConnectTimeout ==
    /\ connectPc = "walletConnect"
    /\ connectingId = "web3auth"
    /\ awaited >= CONNECT_TIMEOUT
    /\ awaited' = 0
    /\ lastError' = ConnectErrorText(connectingId, TIMEOUT_MESSAGE)
    /\ connectingId' = NULL
    /\ connectPc' = "idle"
    /\ UNCHANGED <<walletSdk, openModal, notConnectVars>>

\* the waits after a connect have passed; hasAddress is what the render saw
ConnectVerified(hasAddress) ==
    /\ connectPc = "verify"
    /\ openModal' = IF connectingId = "web3auth" /\ ~hasAddress THEN openModal ELSE FALSE
    /\ connectingId' = NULL
    /\ connectPc' = "idle"
    /\ UNCHANGED <<lastError, awaited, walletSdk, notConnectVars>>

\* 10 s pass while the handler waits; the armed timer does not let its time pass
ConnectTick ==
    /\ connectPc \in {"init", "connect", "walletConnect"}
    /\ awaited < MaxWait
    /\ ~(connectPc = "walletConnect" /\ connectingId = "web3auth" /\ awaited >= CONNECT_TIMEOUT)
    /\ awaited' = awaited + 1
    /\ UNCHANGED <<connectingId, lastError, connectPc, walletSdk, openModal, notConnectVars>>

\* the modal is opened again
ConnectReopen ==
    /\ ~openModal
    /\ connectingId = NULL
    /\ openModal' = TRUE
    /\ UNCHANGED <<connectingId, lastError, connectPc, awaited, walletSdk, notConnectVars>>

ConnectNext ==
    \/ \E id \in {"web3auth", "pera"} : ConnectClick(id)
    \/ \E ok \in BOOLEAN : SdkInitSettles(ok)
    \/ \E ok \in BOOLEAN : SdkConnectSettles(ok)
    \/ \E ok \in BOOLEAN : WalletConnectSettles(ok)
    \/ ConnectTimeout
    \/ \E hasAddress \in BOOLEAN : ConnectVerified(hasAddress)
    \/ ConnectTick
    \/ ConnectReopen

(***************************************************************************)
(* Layout's wallet modal (unnamed/part_008): the social login buttons over *)
(* Web3AuthProvider.login.                                                 *)
(***************************************************************************)
SocialLoginProviders == {"google", "facebook", "github"}

\* the page as loaded: the modal closed, no button pressed
ModalAtRest ==
    /\ openWalletModal = FALSE
    /\ connectingProvider = NULL
    /\ socialPc = "idle"

\* toggleWalletModal from the navbar button, the close button or the backdrop
ToggleWalletModal ==
    /\ openWalletModal' = ~openWalletModal
    /\ UNCHANGED <<connectingProvider, socialPc, walletVars, notModalVars>>

\* a social button is pressed: handleSocialLogin up to `await connectFn()`,
\* which is login(WALLET_ADAPTERS.AUTH, p) up to its own first await
HandleSocialLogin(p) ==
    /\ openWalletModal
    /\ connectingProvider = NULL
    /\ socialPc = "idle"
    /\ LoginCall(TRUE)
    /\ connectingProvider' = p
    /\ socialPc' = "connectFn"
    /\ UNCHANGED <<openWalletModal, notModalVars, sdkVars, isInitialized, isConnected,
                   provider, web3AuthInstance, algorandAccount, userInfo, initPc, logoutPc,
                   reloadPending, tradVars, disconnectCall>>

\* login() has returned (it catches whatever it awaits): closeModal(), the
\* toggle of the render in which the button was pressed, when the modal was open
SocialLoginReturns ==
    /\ socialPc = "connectFn"
    /\ loginPc = "idle"
    /\ openWalletModal' = FALSE
    /\ socialPc' = "idle"
    /\ UNCHANGED <<connectingProvider, walletVars, notModalVars>>

ModalNext ==
    \/ InitStart \/ InitModalOk \/ InitModalFail \/ InitResolved \/ InitRejected
    \/ InitAccountOk \/ InitAccountFail \/ InitUserInfo
    \/ ToggleWalletModal
    \/ \E p \in SocialLoginProviders : HandleSocialLogin(p)
    \/ SocialLoginReturns
    \/ LoginConnectOk \/ LoginConnectFail \/ LoginAccountOk \/ LoginAccountFail
    \/ LoginUserInfo
    \/ LogoutStart \/ LogoutOk \/ LogoutFail \/ PageReload

AssetsSpecInit == AssetsInit /\ WalletSettled /\ AmountAtRest /\ RelayAtRest /\ CallsAtRest /\ ConnectAtRest /\ ModalAtRest

SpecAssets == AssetsSpecInit /\ [][AssetsNext]_vars

WalletSpecInit == WalletInit /\ AmountAtRest /\ AssetsAtRest /\ RelayAtRest /\ CallsAtRest /\ ConnectAtRest /\ ModalAtRest

SpecWallet == WalletSpecInit /\ [][WalletNext]_vars

AmountSpecInit == AmountInit /\ WalletAtRest /\ AssetsAtRest /\ RelayAtRest /\ CallsAtRest /\ ConnectAtRest /\ ModalAtRest

SpecAmount == AmountSpecInit /\ [][AmountNext]_vars

CallsSpecInit == CallsInit /\ AmountAtRest /\ AssetsAtRest /\ RelayAtRest /\ ConnectAtRest /\ ModalAtRest

SpecCalls == CallsSpecInit /\ [][CallsNext]_vars

RelaySpecInit == RelayInit /\ AmountAtRest /\ WalletAtRest /\ AssetsAtRest /\ CallsAtRest /\ ConnectAtRest /\ ModalAtRest

SpecRelay == RelaySpecInit /\ [][RelayNext]_vars

ConnectSpecInit ==
    ConnectInit /\ AmountAtRest /\ WalletAtRest /\ AssetsAtRest /\ RelayAtRest /\ CallsAtRest
                /\ ModalAtRest

SpecConnect == ConnectSpecInit /\ [][ConnectNext]_vars

ModalSpecInit ==
    WalletInit /\ activeWallet = NULL /\ ModalAtRest /\ AmountAtRest /\ AssetsAtRest /\ RelayAtRest
               /\ CallsAtRest /\ ConnectAtRest

SpecModal == ModalSpecInit /\ [][ModalNext]_vars

(***************************************************************************)
(* Arithmetic on bigints, and the exact value of a typed amount, for the   *)
(* statements about decimalToBaseUnits.  None of it is used by the model   *)
(* of the routine.                                                         *)
(***************************************************************************)
\* n * 10^k
BigTimesPow10(n, k) == IF n = <<0>> THEN <<0>> ELSE n \o [i \in 1..k |-> 0]

\* the input without its surrounding whitespace
Core(s) ==
    LET inner == {i \in 1..Len(s) : s[i] \notin WhiteSpace}
    IN  IF inner = {} THEN <<>>
        ELSE LET lo == CHOOSE i \in inner : \A j \in inner : i <= j
                 hi == CHOOSE i \in inner : \A j \in inner : i >= j
             IN  SubSeq(s, lo, hi)

PointAt(s) == {i \in 1..Len(s) : s[i] = "."}

\* digits, or digits.digits
IsAmount(s) ==
    /\ s # <<>>
    /\ \A i \in 1..Len(s) : s[i] \in Digits \cup {"."}
    /\ Cardinality(PointAt(s)) <= 1
    /\ s[1] # "."
    /\ s[Len(s)] # "."

WholeOf(s) ==
    IF PointAt(s) = {} THEN s ELSE SubSeq(s, 1, (CHOOSE i \in PointAt(s) : TRUE) - 1)

FracOf(s) ==
    IF PointAt(s) = {} THEN <<>>
    ELSE SubSeq(s, (CHOOSE i \in PointAt(s) : TRUE) + 1, Len(s))

NatOf(s) == BigNorm([i \in 1..Len(s) |-> DigitValue(s[i])])

\* whole * 10^d + frac * 10^(d - |frac|), the integer v * 10^d
ExactBaseUnits(s, d) ==
    BigAdd(BigTimesPow10(NatOf(WholeOf(s)), d),
           BigTimesPow10(NatOf(FracOf(s)), d - Len(FracOf(s))))

\* C1: for every amount v of the form digits or digits.digits and every d in
\* 0..19 with at most d fractional digits, decimalToBaseUnits(v, d) returns
\* exactly the integer v * 10^d.
C1_ExactBaseUnits ==
    (amountPc = "done" /\ IsAmount(value) /\ Len(FracOf(value)) <= decimalsArg)
        => result = Returned(ExactBaseUnits(value, decimalsArg))

\* decimalToBaseUnits("007.5", 1) has returned 75
C1_Witness ==
    /\ amountPc = "done"
    /\ value = <<"0", "0", "7", ".", "5">>
    /\ decimalsArg = 1
    /\ result = Returned(<<7, 5>>)

\* C2: a well-formed amount with more fractional digits than d makes
\* decimalToBaseUnits throw "Too many decimal places", for every d in 0..19
\* (d = 0 with "1.0" included); no value is returned.
C2_TooManyFractionalDigits ==
    (amountPc = "done" /\ IsAmount(value) /\ Len(FracOf(value)) > decimalsArg)
        => result = Threw(TooManyDecimalPlaces, decimalsArg)

\* decimalToBaseUnits("1.0", 0) has thrown
C2_Witness ==
    /\ amountPc = "done"
    /\ value = <<"1", ".", "0">>
    /\ decimalsArg = 0
    /\ result.ok = FALSE
    /\ result.error = TooManyDecimalPlaces

\* C3: an input that is not empty after trimming and is not digits or
\* digits.digits makes decimalToBaseUnits throw "Invalid amount format" for
\* every d, whatever the length of what follows its point.
C3_InvalidFormat ==
    (amountPc = "done" /\ Core(value) # <<>> /\ ~IsAmount(Core(value)))
        => result = Threw(InvalidFormat, 0)

\* decimalToBaseUnits(".55", 1): two digits after the point, one allowed,
\* and the format error is the one thrown
C3_Witness ==
    /\ amountPc = "done"
    /\ value = <<".", "5", "5">>
    /\ decimalsArg = 1
    /\ result = Threw(InvalidFormat, 0)

Pads == {<<>>, <<" ">>, <<" ", "\t">>}

\* C4: the empty string and a whitespace-only string make decimalToBaseUnits
\* throw "Amount is required" for every d, and whitespace put around an input
\* does not change what the call returns or throws.
C4_EmptyAmountAndTrim ==
    amountPc = "done" =>
        /\ Core(value) = <<>> => result = Threw(AmountRequired, 0)
        /\ \A l \in Pads, r \in Pads :
              decimalToBaseUnits(l \o value \o r, decimalsArg) = result

\* decimalToBaseUnits("   ", d) has thrown "Amount is required"
C4_Witness ==
    /\ amountPc = "done"
    /\ value = <<" ", " ", " ">>
    /\ decimalsArg = ALGO_DECIMALS
    /\ result = Threw(AmountRequired, 0)

\* C5: whenever the federated provider reports isConnected with a derived
\* account and the traditional provider reports an activeAddress too, the
\* facade's activeAddress is the federated account's address and walletType
\* is 'web3auth'.
C5_FederatedPrecedence ==
    (isConnected /\ algorandAccount # NULL /\ activeWallet # NULL)
        => /\ UnifiedActiveAddress = "ADDR_WEB3AUTH"
           /\ walletType = "web3auth"

\* both providers report an address, and the facade shows the federated one
C5_Witness ==
    /\ isConnected
    /\ algorandAccount = "account"
    /\ activeWallet = "pera"
    /\ UnifiedActiveAddress = "ADDR_WEB3AUTH"
    /\ UnifiedActiveAddress # TradAddress(activeWallet)
    /\ walletType = "web3auth"

\* C6: whenever the federated provider is not both connected and holding a
\* derived account, the facade follows the traditional provider: its address
\* and 'traditional' when there is one, otherwise no address, not connected
\* and no wallet type.
C6_TraditionalElseNone ==
    ~(isConnected /\ algorandAccount # NULL) =>
        IF activeWallet # NULL
        THEN /\ UnifiedActiveAddress = TradAddress(activeWallet)
             /\ walletType = "traditional"
        ELSE /\ UnifiedActiveAddress = NULL
             /\ UnifiedIsConnected = FALSE
             /\ walletType = NULL

\* the federated provider is connected without a derived account while a
\* traditional wallet is active: the facade shows the traditional wallet
C6_Witness ==
    /\ isConnected
    /\ algorandAccount = NULL
    /\ activeWallet = "defly"
    /\ UnifiedActiveAddress = "ADDR_DEFLY"
    /\ walletType = "traditional"

\* the step at which a call of the facade's disconnect() returns
DisconnectReturns == disconnectCall.pc # "done" /\ disconnectCall'.pc = "done"

\* no start-up and no login is outstanding
ProviderQuiet == initPc = "done" /\ loginPc = "idle"

\* C7: a disconnect() that was invoked while the facade had an activeAddress
\* and has completed leaves the facade without an activeAddress.  Stated for
\* the calls that found the federated provider active (alone or together
\* with a traditional wallet) and that ran while the provider did nothing
\* else.
C7_DisconnectClearsAddress ==
    [][(DisconnectReturns /\ disconnectCall.fed /\ ProviderQuiet /\ ProviderQuiet')
           => UnifiedActiveAddress' = NULL]_vars

(***************************************************************************)
(* The asset history.                                                      *)
(***************************************************************************)
\* the list localStorage holds
Persisted == IF storage.present THEN storage.text ELSE <<>>

\* a list of records as JSON keeps it: a property that is undefined is absent
AsStored(list) ==
    [i \in 1..Len(list) |->
        IF "url" \in DOMAIN list[i] /\ list[i].url = UNDEFINED
        THEN [k \in DOMAIN list[i] \ {"url"} |-> list[i][k]]
        ELSE list[i]]

\* the newest first, in storage and on the page
C8_Order ==
    /\ Persisted = Reverse(AsStored(createdLog))
    /\ mounted => AsStored(createdAssets) = Reverse(AsStored(createdLog))

\* a creation puts one record in front of the lists as they were
C8_Keeps ==
    Len(createdLog') > Len(createdLog) =>
        /\ Len(Persisted') = Len(Persisted) + 1
        /\ Tail(Persisted') = Persisted
        /\ Persisted'[1] = AsStored(createdLog')[Len(createdLog')]
        /\ mounted => Tail(AsStored(createdAssets')) = AsStored(createdAssets)

\* C8: The history is most-recent-first.  With no Clear in between, the list in
\* localStorage and the displayed list hold the created records in reverse order
\* of creation (A then B gives [B, A]), and a later creation leaves the earlier
\* records in place, in order and as they were.
C8_MostRecentFirst == [](C8_Order) /\ [][C8_Keeps]_vars

\* the visitor tokenized A and then minted B: both lists read [B, A]
C8_Witness ==
    /\ Len(createdLog) = 2
    /\ createdLog[1].assetName = "Gold Bar"
    /\ createdLog[2].assetName = "MasterPass Ticket"
    /\ Len(Persisted) = 2
    /\ Persisted[1].assetName = "MasterPass Ticket"
    /\ Persisted[2].assetName = "Gold Bar"
    /\ AsStored(createdAssets) = Persisted

\* a call to the chain came back with a failure
C9_ChainFailed ==
    \/ /\ tokenizeCall.pc = "assetCreate" /\ tokenizeCall'.pc = "idle"
       /\ snack' = Msg.TokenizeFailed
    \/ /\ mintCall.pc = "assetCreate" /\ mintCall'.pc = "idle"
       /\ snack' = Msg.MintFailed
    \/ /\ transferCall.pc \in {"payment", "assetTransfer"} /\ transferCall'.pc = "idle"
       /\ snack' \in {Msg.AlgoSendFailed, Msg.TransferFailed}

\* assetCreate came back with an asset id
C9_CreateReturned ==
    \/ /\ tokenizeCall.pc = "assetCreate" /\ tokenizeCall'.pc = "idle"
       /\ snack' = Msg.TokenizeSuccess
    \/ /\ mintCall.pc = "assetCreate" /\ mintCall'.pc = "idle"
       /\ snack' = Msg.MintSuccess

\* a list of the history got longer (the page's list starts empty and is read
\* from storage on mount, which adds no record)
C9_Appended ==
    \/ Len(Persisted') > Len(Persisted)
    \/ mounted /\ Len(createdAssets') > Len(createdAssets)

\* C9: When the chain rejects or throws during assetCreate (tokenize or mint) or
\* during a transfer, localStorage's entry and createdAssets are what they were
\* before; a record is added only when assetCreate has returned successfully.
C9_HistoryUnchangedOnFailure ==
    [][/\ C9_ChainFailed => UNCHANGED <<storage, createdAssets>>
       /\ C9_Appended => C9_CreateReturned]_vars

\* an assetCreate was rejected while the history held two records
C9_Witness ==
    /\ snack = Msg.TokenizeFailed
    /\ tokenizeCall.pc = "idle"
    /\ Len(Persisted) = 2
    /\ AsStored(createdAssets) = Persisted

\* a string of one or more decimal digits
C10_DigitString(s) == s # <<>> /\ \A i \in 1..Len(s) : s[i] \in Digits

\* the number a digit string stands for is at most 19
C10_AtMost19(s) ==
    LET n == NatOf(s) IN Len(n) = 1 \/ (Len(n) = 2 /\ n[1] = 1)

\* what handleTokenize has to turn down
C10_Invalid ==
    \/ UnifiedActiveAddress = NULL
    \/ UnifiedSigner = NULL
    \/ form.assetName = ""
    \/ form.unitName = ""
    \/ ~C10_DigitString(form.total)
    \/ ~C10_DigitString(form.decimals)
    \/ ~C10_AtMost19(form.decimals)

\* an assetCreate in flight has a sender, a whole-number total and 0..19 decimals
C10_IssuedWellFormed ==
    tokenizeCall.pc = "assetCreate" =>
        /\ tokenizeCall.sender \notin {NULL, "", TypeError}
        /\ C10_DigitString(tokenizeCall.totalTyped)
        /\ tokenizeCall.total # <<>>
        /\ \A i \in 1..Len(tokenizeCall.total) : tokenizeCall.total[i] \in 0..9
        /\ tokenizeCall.decimals \in 0..19

\* C10: handleTokenize sends nothing to the chain and changes no state (history,
\* form fields, loading flag) when the facade has no address or signer, a name
\* is empty, total is not a digit string, or decimals is not a digit string or
\* is outside 0..19; so every assetCreate sent has a sender, a whole-number
\* total and decimals in 0..19.
C10_TokenizeRejectsInvalid ==
    /\ [](C10_IssuedWellFormed)
    /\ [][(TokenizeClick /\ C10_Invalid) =>
              UNCHANGED <<form, loading, storage, createdAssets, tokenizeCall,
                          nftForm, nftLoading, transferForm, transferLoading,
                          mintCall, transferCall>>]_vars

\* handleTokenize turned down 20 decimals
C10_Witness ==
    /\ snack = Msg.DecimalsRange
    /\ form.decimals = <<"2", "0">>
    /\ C10_DigitString(form.total)
    /\ tokenizeCall.pc = "idle"
    /\ ~loading
    /\ Persisted = <<>>

(***************************************************************************)
(* The creation flows and the amount conversion.                           *)
(***************************************************************************)
\* C11: for every whole-number total t and every d in 0..19, the total that
\* handleTokenize and handleMintNFT pass to assetCreate, BigInt(t) * 10^d,
\* is what decimalToBaseUnits(t, d) returns.
C11_CreationTotalIsConversion ==
    (amountPc = "done" /\ C10_DigitString(value))
        => result = Returned(OnChainTotal(value, decimalsArg))

\* "015" with 19 decimals: both give 15 followed by 19 zeros
C11_Witness ==
    /\ amountPc = "done"
    /\ value = <<"0", "1", "5">>
    /\ decimalsArg = 19
    /\ result.ok
    /\ result.val = <<1, 5>> \o [i \in 1..19 |-> 0]
    /\ OnChainTotal(value, decimalsArg) = result.val

(***************************************************************************)
(* Transfers.                                                              *)
(***************************************************************************)
\* a call to payment or assetTransfer is awaited
TransferSubmitted == transferCall.pc \in {"payment", "assetTransfer"}

\* C12: handleTransferAsset never calls payment or assetTransfer with an empty
\* recipient or an amount that is not strictly positive: in every mode a
\* submitted transfer has a non-empty receiver and at least 1 base unit, and
\* in manual mode the asset id and the amount are digit strings.
C12_TransferReceiverAndAmount ==
    TransferSubmitted =>
        /\ transferCall.receiver # ""
        /\ transferCall.amount # <<>>
        /\ \A i \in 1..Len(transferCall.amount) : transferCall.amount[i] \in 0..9
        /\ transferCall.amount[1] # 0
        /\ transferCall.mode = "manual" =>
               /\ C10_DigitString(transferCall.assetIdTyped)
               /\ C10_DigitString(transferCall.amountTyped)

\* 1.5 ALGO is on its way as 1500000 microAlgo
C12_Witness ==
    /\ transferCall.pc = "payment"
    /\ transferCall.mode = "algo"
    /\ transferCall.receiver = "ADDR_RECEIVER"
    /\ transferCall.amountTyped = <<"1", ".", "5">>
    /\ transferCall.amount = <<1, 5, 0, 0, 0, 0, 0>>

\* C13: in the algo and usdc modes the amount handed to the chain client (the
\* microAlgo of payment, the amount of assetTransfer) is exactly the integer
\* decimalToBaseUnits(amount, 6), also above 2^53.
C13_TransferAmountExact ==
    (TransferSubmitted /\ transferCall.mode \in {"algo", "usdc"}) =>
        transferCall.amount = decimalToBaseUnits(transferCall.amountTyped, 6).val

(***************************************************************************)
(* Minting: the relay first, the chain second.                             *)
(***************************************************************************)
\* the mint's assetCreate carries the locator the relay gave
C14_CreateHasLocator ==
    mintCall.pc = "assetCreate" => mintCall.url \notin {"", UNDEFINED, NULL}

\* assetCreate is sent by the step that took the relay's answer
C14_CreateAfterRelay ==
    (mintCall'.pc = "assetCreate" /\ mintCall.pc # "assetCreate") =>
        /\ mintCall.pc = "fetch"
        /\ snack' = Msg.Minting
        /\ mintCall'.url \notin {"", UNDEFINED, NULL}

\* without a file the relay is not called
C14_NoFileNoRelay ==
    (nftForm.selectedFile = NULL /\ mintCall.pc = "idle") => mintCall'.pc = "idle"

\* the relay leg failed: nothing is sent to the chain, the history stays, the
\* upload's own message is shown and the flag is cleared
C14_RelayFailed ==
    (mintCall.pc = "fetch" /\ mintCall'.pc # "assetCreate" /\ mintCall' # mintCall) =>
        /\ mintCall'.pc = "idle"
        /\ UNCHANGED <<storage, createdAssets>>
        /\ snack' = Msg.UploadError
        /\ Msg.UploadError # Msg.MintFailed
        /\ nftLoading' = FALSE

\* C14: handleMintNFT sends assetCreate only after the relay, in the same run
\* of the handler, answered OK with a non-empty metadataUrl.  Without a file
\* no relay call is made.  When the relay call fails (network error, non-OK
\* status, no metadataUrl) no assetCreate is sent, the history is unchanged,
\* the upload's own message (not the chain's) is shown and nftLoading is false.
C14_MintRelayThenChain ==
    /\ [](C14_CreateHasLocator)
    /\ [][C14_CreateAfterRelay /\ C14_NoFileNoRelay /\ C14_RelayFailed]_vars

\* the relay leg failed after an earlier asset had been created
C14_Witness ==
    /\ snack = Msg.UploadError
    /\ mintCall.pc = "idle"
    /\ ~nftLoading
    /\ nftForm.selectedFile # NULL
    /\ Len(Persisted) = 1

(***************************************************************************)
(* The mint relay                                                          *)
(***************************************************************************)

\* the request in the relay was turned down by the CORS middleware
CorsBlocked ==
    /\ relayRes # <<>>
    /\ relayRes[1].status = 500
    /\ DOMAIN relayRes[1].body = {"corsBlocked"}

\* the request in the relay reached the POST /api/pin-image handler
C15_Handled == relayPc # "idle" /\ ~CorsBlocked

C15_Answered == C15_Handled /\ relayPc = "done" /\ relayReq.file # UNDEFINED

C15_OneResponse ==
    /\ Len(relayRes) <= 1
    /\ C15_Handled => (relayPc = "done" <=> Len(relayRes) = 1)

C15_NoFile ==
    (C15_Handled /\ relayReq.file = UNDEFINED) =>
        /\ relayPc = "done"
        /\ relayRes[1].status = 400
        /\ "error" \in DOMAIN relayRes[1].body
        /\ pinCalls = <<>>

C15_Failure ==
    (C15_Answered /\ relayRes[1].status # 200) =>
        /\ relayRes[1].status = 500
        /\ DOMAIN relayRes[1].body = {"error"}
        /\ relayRes[1].body.error \notin {"", UNDEFINED}
        /\ Len(pinCalls) \in {1, 2}

C15_Success ==
    (C15_Answered /\ relayRes[1].status = 200) =>
        /\ Len(pinCalls) = 2
        /\ pinCalls[1] = [call |-> "pinFileToIPFS", content |-> relayReq.file]
        /\ pinCalls[2].call = "pinJSONToIPFS"
        /\ pinCalls[2].content.image = <<"ipfs://", <<"Qm", relayReq.file>>>>
        /\ relayRes[1].body = [metadataUrl |-> <<"ipfs://", <<"Qm", pinCalls[2].content>>>>]

\* the file pin failed: the answer is 500 and the metadata was not pinned
C15_FilePinFailed ==
    (relayPc = "pinFile" /\ relayPc' = "done") =>
        /\ relayRes'[1].status = 500
        /\ pinCalls' = pinCalls
        /\ Len(pinCalls) = 1

\* C15: every POST /api/pin-image request that reaches the handler gets
\* exactly one response: 400 with an error field and no pinning call when
\* there is no file; 500 with an error message when a pin fails, the
\* metadata pin not attempted after a failed file pin; 200 with
\* metadataUrl = "ipfs://" + the hash of the metadata document, whose image
\* is "ipfs://" + the hash of the file, when both pins succeed.
C15_PinImageResponses ==
    /\ [](C15_OneResponse /\ C15_NoFile /\ C15_Failure /\ C15_Success)
    /\ [][C15_FilePinFailed]_vars

C15_Witness ==
    /\ C15_Answered
    /\ relayRes[1].status = 200
    /\ relayReq.origin.present

\* the origins of OriginHeaders whose hostname is a subdomain of vercel.app
C16_PreviewOrigins == {<<"h", "t", "t", "p", "s", ":", "/", "/", "m", "y", ".", "v", "e", "r", "c", "e", "l", ".", "a", "p", "p">>,
                       <<"h", "t", "t", "p", "s", ":", "/", "/", "m", "y", ".", "v", "e", "r", "c", "e", "l", ".", "a", "p", "p", ":", "8", "4", "4", "3">>}

C16_Listed ==
    \/ ~relayReq.origin.present
    \/ relayReq.origin.text = <<"h", "t", "t", "p", ":", "/", "/", "l", "o", "c", "a", "l", "h", "o", "s", "t", ":", "5", "1", "7", "3">>
    \/ relayReq.origin.text \in explicitAllowed
    \/ relayReq.origin.text \in C16_PreviewOrigins

\* C16 as stated: a request is allowed when it has no Origin header, or its
\* origin is http://localhost:5173, on the allow-list, or a subdomain of the
\* preview-deployment host; every other origin is rejected with an error.
C16_CrossOriginDecision == relayPc # "idle" => (CorsBlocked <=> ~C16_Listed)

\* C16, amended: the same, unless the allow-list holds the wildcard '*' or
\* the Origin header is empty, when the request is allowed as well.
C16_CrossOriginDecisionNoWildcard ==
    relayPc # "idle" =>
        (CorsBlocked <=> ~(\/ C16_Listed
                           \/ <<"*">> \in explicitAllowed
                           \/ relayReq.origin.text = <<>>))

C16_Witness ==
    /\ relayPc = "done"
    /\ CorsBlocked
    /\ relayReq.origin.text = <<"h", "t", "t", "p", "s", ":", "/", "/", "e", "v", "i", "l", "v", "e", "r", "c", "e", "l", ".", "a", "p", "p">>
    /\ explicitAllowed # {}

(***************************************************************************)
(* Web3AuthProvider.login: failure                                         *)
(***************************************************************************)

\* a step in which a running login() ends in its catch (the page staying loaded)
C17_LoginFailed ==
    /\ loginPc \in {"connectTo", "connect", "getAlgorandAccount"}
    /\ loginPc' = "idle"
    /\ ~(reloadPending /\ ~reloadPending')

\* a step in which login() returns early for want of an instance
C17_LoginRefused ==
    /\ loginPc = "idle"
    /\ web3AuthInstance = NULL
    /\ error' = Err.NotInitialized
    /\ error # Err.NotInitialized

C17_SessionCleared ==
    /\ isConnected' = FALSE
    /\ provider' = NULL
    /\ algorandAccount' = NULL
    /\ userInfo' = NULL
    /\ error' \notin {NULL, ""}

\* C17: a login() that fails (connect or connectTo rejects or gives no
\* provider, or the account derivation fails) leaves isConnected = false,
\* provider, algorandAccount and userInfo null, isLoading = false and error
\* set; a login() refused for want of an instance sets error and leaves the
\* session fields clear.
C17_LoginFailureRollsBack ==
    [][/\ C17_LoginFailed => (C17_SessionCleared /\ isLoading' = FALSE)
       /\ C17_LoginRefused => C17_SessionCleared]_vars

C17_Witness ==
    /\ loginPc = "idle"
    /\ error = Err.DeriveRejected
    /\ sdkStatus = "connected"
    /\ ~isConnected /\ provider = NULL /\ ~isLoading

(***************************************************************************)
(* initWeb3Auth: one instance                                              *)
(***************************************************************************)

\* C18: however the calls of initWeb3Auth follow and interleave, new
\* Web3Auth runs at most once in a page, and every call that returned
\* returned the one instance, which is the module's.
C18_OneInstance ==
    /\ constructed <= 1
    /\ \A c \in Callers :
           initCalls[c].pc = "returned" =>
               /\ initCalls[c].value = web3authInstance
               /\ initCalls[c].value # NULL
               /\ \A d \in Callers :
                      initCalls[d].pc = "returned" => initCalls[d].value = initCalls[c].value

\* one caller has the instance while the first caller still awaits initModal
C18_Witness ==
    \E c, d \in Callers :
        /\ initCalls[c].pc = "initModal"
        /\ initCalls[d].pc = "returned"
        /\ constructed = 1

(***************************************************************************)
(* Web3AuthProvider: failed start-up                                       *)
(***************************************************************************)

\* the mount effect has ended without an instance: initWeb3Auth threw
C19_InitFailed == initPc = "done" /\ web3AuthInstance = NULL

\* C19: when initWeb3Auth throws (without a client id it throws on every
\* call and keeps no instance), the provider ends with error set,
\* isInitialized, not loading, not connected and no account, and the facade
\* takes activeAddress, signer and walletType from the traditional wallet
\* whenever one is connected.
C19_InitFailureLeavesTraditional ==
    /\ clientId = NULL =>
           /\ web3authInstance = NULL
           /\ initPc \in {"mount", "threwClientId", "done"}
           /\ initPc = "done" => error = Err.ClientIdNotConfigured \/ error = Err.NotInitialized
    /\ C19_InitFailed =>
           /\ error \notin {NULL, ""}
           /\ isInitialized
           /\ ~isLoading
           /\ ~isConnected
           /\ algorandAccount = NULL
           /\ activeWallet # NULL =>
                  /\ UnifiedActiveAddress = TradAddress(activeWallet)
                  /\ UnifiedSigner = "transactionSigner"
                  /\ walletType = "traditional"

C19_Witness ==
    /\ C19_InitFailed
    /\ clientId = NULL
    /\ error = Err.ClientIdNotConfigured
    /\ activeWallet = "pera"
    /\ UnifiedActiveAddress = "ADDR_PERA"

(***************************************************************************)
(* ConnectWallet.handleConnect: the attempt ends                           *)
(***************************************************************************)

\* C20: a federated connect attempt does not stay at one await, with the
\* connecting indicator up, for longer than the fixed wait of 30 s,
\* whichever await it is (SDK init, direct connect or wallet.connect()).
C20_ConnectAttemptEnds == connectingId = "web3auth" => awaited <= CONNECT_TIMEOUT

\* the same for the one await that is raced against the timer
C20_RacedConnectEnds ==
    (connectingId = "web3auth" /\ connectPc = "walletConnect") => awaited <= CONNECT_TIMEOUT

(***************************************************************************)
(* Web3AuthProvider.logout: the reset                                      *)
(***************************************************************************)

\* a step in which a running logout() returns (the page staying loaded)
C21_LogoutEnded ==
    /\ logoutPc = "logoutFromWeb3Auth"
    /\ logoutPc' = "idle"
    /\ ~(reloadPending /\ ~reloadPending')

C21_SessionReset ==
    /\ provider' = NULL
    /\ isConnected' = FALSE
    /\ algorandAccount' = NULL
    /\ userInfo' = NULL
    /\ reloadPending'

\* C21: every logout() that was invoked ends with provider, isConnected,
\* algorandAccount and userInfo cleared and the page reload asked for; no
\* logout ends with the session still populated.
C21_LogoutResetsSession == [][C21_LogoutEnded => C21_SessionReset]_vars

\* the same for the logouts whose SDK call resolved
C21_ResolvedLogoutResetsSession ==
    [][(C21_LogoutEnded /\ error' # Err.LogoutRejected) => C21_SessionReset]_vars

(***************************************************************************)
(* No retries                                                              *)
(***************************************************************************)

\* a step in which an external call of handleConnect fails
C22_ConnectCallFailed ==
    \/ connectPc = "init" /\ lastError' # ""
    \/ connectPc = "connect" /\ connectPc' # "connect" /\ walletSdk'.status # "connected"
    \/ connectPc = "walletConnect" /\ connectPc' \notin {"walletConnect", "verify"}

\* the awaits of handleConnect in the order of its text
C22_ConnectRank(pc) ==
    CASE pc = "idle" -> 0 [] pc = "init" -> 1 [] pc = "connect" -> 2
      [] pc = "walletConnect" -> 3 [] pc = "verify" -> 4

C22_AssetsNoRetry ==
    [][/\ tokenizeCall'.pc # tokenizeCall.pc => "idle" \in {tokenizeCall.pc, tokenizeCall'.pc}
       /\ transferCall'.pc # transferCall.pc => "idle" \in {transferCall.pc, transferCall'.pc}
       /\ mintCall'.pc # mintCall.pc =>
              \/ "idle" \in {mintCall.pc, mintCall'.pc}
              \/ mintCall.pc = "fetch" /\ mintCall'.pc = "assetCreate"
       /\ tokenizeCall'.pc = tokenizeCall.pc => tokenizeCall' = tokenizeCall
       /\ transferCall'.pc = transferCall.pc => transferCall' = transferCall
       /\ mintCall'.pc = mintCall.pc => mintCall' = mintCall]_vars

\* the same for Web3AuthProvider.login: connect is awaited once, and a
\* rejected connect or derivation ends the call
C22_LoginNoRetry ==
    [][loginPc' # loginPc =>
           \/ loginPc' = "idle"
           \/ loginPc = "idle" /\ loginPc' \in {"connect", "connectTo"}
           \/ loginPc \in {"connect", "connectTo"} /\ loginPc' = "getAlgorandAccount"
           \/ loginPc = "getAlgorandAccount" /\ loginPc' = "getUserInfo"]_vars

(***************************************************************************)
(* useUnifiedWallet: signer and address                                    *)
(***************************************************************************)

\* C23: the signer and the activeAddress come from the same provider: with
\* walletType 'web3auth' the signer is built from the algorandAccount whose
\* address is activeAddress, otherwise the signer is the traditional
\* transactionSigner and the address, if any, the traditional one.
C23_SignerMatchesAddress ==
    /\ walletType = "web3auth" =>
           /\ UnifiedSigner = "createWeb3AuthSigner"
           /\ UnifiedActiveAddress = "ADDR_WEB3AUTH"
    /\ walletType # "web3auth" =>
           /\ UnifiedSigner = "transactionSigner"
           /\ UnifiedActiveAddress = TraditionalActiveAddress
    /\ SignerAddress = UnifiedActiveAddress
    /\ SignerAddress # TypeError

\* a login has set isConnected and not yet the account while a traditional
\* wallet is active: address and signer are both the traditional ones
C23_Witness ==
    /\ loginPc = "getAlgorandAccount"
    /\ isConnected
    /\ algorandAccount = NULL
    /\ activeWallet = "pera"
    /\ UnifiedSigner = "transactionSigner"
    /\ UnifiedActiveAddress = "ADDR_PERA"

(***************************************************************************)
(* useUnifiedWallet().disconnect: both teardowns                           *)
(***************************************************************************)

\* a step in which disconnect() is invoked
C24_Invoked == disconnectCall.pc \in {"idle", "done"} /\ disconnectCall'.pc \notin {"idle", "done"}

\* a step in which logout() is called
C24_LogoutCalled == logoutPc = "idle" /\ logoutPc' = "logoutFromWeb3Auth"

\* a step in which the adapter's disconnect() is called
C24_AdapterCalled == disconnectCall.pc # "traditional" /\ disconnectCall'.pc = "traditional"

\* C24: a disconnect() invoked with both providers active calls logout() and,
\* when logout() has returned, resolved or rejected, reload asked for or not,
\* calls the adapter's disconnect(); invoked with one provider active it
\* calls that provider's teardown only.
C24_BothTeardowns ==
    [][/\ C24_Invoked =>
              /\ isWeb3AuthActive <=> (C24_LogoutCalled /\ disconnectCall'.pc = "logout")
              /\ (~isWeb3AuthActive /\ isTraditionalActive) => C24_AdapterCalled
              /\ disconnectCall'.trad = isTraditionalActive
       /\ (disconnectCall.pc = "logout" /\ disconnectCall'.pc # "logout") =>
              /\ disconnectCall.trad => C24_AdapterCalled
              /\ ~disconnectCall.trad => disconnectCall'.pc = "done"
       /\ C24_AdapterCalled => (disconnectCall'.trad /\ disconnectCall'.wallet # NULL)
       /\ (C24_LogoutCalled /\ disconnectCall'.pc = "logout") => disconnectCall'.fed]_vars

\* both were active; logout() resolved and asked for the reload, and the
\* adapter's disconnect() has been called as well
C24_Witness ==
    /\ disconnectCall = [pc |-> "traditional", fed |-> TRUE, trad |-> TRUE, wallet |-> "pera"]
    /\ reloadPending

(***************************************************************************)
(* C25: one invocation per action, and the flag cleared on every exit.     *)
(***************************************************************************)
\* each flag is set exactly while its handler is suspended on a network call
C25_FlagsFollowCalls ==
    /\ loading <=> tokenizeCall.pc # "idle"
    /\ nftLoading <=> mintCall.pc # "idle"
    /\ transferLoading <=> transferCall.pc # "idle"

\* a step that puts a handler before its first await starts from no call in
\* flight; a call in flight is never replaced by another invocation's
C25_NoSecondInvocation ==
    /\ (tokenizeCall.pc # "idle" /\ tokenizeCall'.pc # "idle") => tokenizeCall' = tokenizeCall
    /\ (mintCall.pc # "idle" /\ mintCall'.pc = "fetch") => mintCall' = mintCall
    /\ (transferCall.pc # "idle" /\ transferCall'.pc # "idle") => transferCall' = transferCall

\* a click that aborts in validation leaves the flag clear
C25_AbortLeavesFlagClear ==
    /\ (snack' # snack /\ tokenizeCall' = tokenizeCall /\ tokenizeCall.pc = "idle") => (loading' = loading)
    /\ (snack' # snack /\ mintCall' = mintCall /\ mintCall.pc = "idle") => (nftLoading' = nftLoading)
    /\ (snack' # snack /\ transferCall' = transferCall /\ transferCall.pc = "idle")
           => (transferLoading' = transferLoading)

\* C25: for create (loading), transfer (transferLoading) and mint
\* (nftLoading), the flag that disables the control is set exactly while an
\* invocation is suspended on a network call, so at most one invocation of
\* each action is in flight and none is started over another; the flag is
\* false again after every exit: success, validation abort, relay failure,
\* chain failure.
C25_OneInvocationPerAction ==
    /\ []C25_FlagsFollowCalls
    /\ [][C25_NoSecondInvocation /\ C25_AbortLeavesFlagClear]_vars

\* a mint has just left through the relay failure while a create is in flight
C25_Witness ==
    /\ snack = Msg.UploadError
    /\ mintCall = NoCall /\ ~nftLoading
    /\ tokenizeCall.pc = "assetCreate" /\ loading

(***************************************************************************)
(* C26: what initWeb3Auth() hands to its callers.                          *)
(***************************************************************************)
\* caller c's call returns an instance in this step
C26_Returns(c) == initCalls[c].pc # "returned" /\ initCalls'[c].pc = "returned"

\* initModal() has resolved on the module's instance
C26_Initialized == sdkStatus \in {"ready", "connected"}

\* C26: every instance initWeb3Auth() returns has completed initModal: a
\* caller that arrives while an earlier call's initModal is in flight is not
\* handed the instance before that initModal resolves, and after a failed
\* initModal no later call returns the un-initialized instance.
C26_ReturnedInstanceInitialized ==
    [][\A c \in Callers : C26_Returns(c) => C26_Initialized']_vars

\* the same, for the callers whose own call ran initModal, which holds
C26_OwnInitReturnsInitialized ==
    [][\A c \in Callers :
          (initCalls[c].pc = "initModal" /\ initCalls'[c].pc = "returned") => C26_Initialized']_vars

(***************************************************************************)
(* C27: the provider's operations that are outstanding together.           *)
(***************************************************************************)
\* the operations of Web3AuthProvider that stand at an await
C27_Outstanding ==
    (IF initPc \notin {"mount", "done"} THEN {"initializeWeb3Auth"} ELSE {})
    \cup (IF loginPc # "idle" THEN {"login"} ELSE {})
    \cup (IF logoutPc # "idle" THEN {"logout"} ELSE {})

\* C27: at most one of the start-up session restore, login and logout is
\* outstanding at any time, so no two of them have network calls whose
\* results race into provider, isConnected, algorandAccount, userInfo,
\* isLoading or error.
C27_OneOperationOutstanding == Cardinality(C27_Outstanding) <= 1

(***************************************************************************)
(* C28: the category a failed federated connect is reported in.            *)
(***************************************************************************)
C28_Configuration == "Web3Auth Client ID is missing or invalid. Check your .env file."

C28_NetworkOrTimeout ==
    {"Web3Auth network configuration error. Check your network settings.",
     "Web3Auth connection timed out. The login modal may not have opened. Check browser console for Web3Auth errors."}

\* the text of the unknown category for a caught message
C28_Unknown(msg) == "Web3Auth connection failed: " \o TextOf(msg)

\* the caught error is about the client identifier
C28_AboutClientId(msg) == Includes(msg, <<"c", "l", "i", "e", "n", "t", "I", "d">>) \/ Includes(msg, <<"C", "l", "i", "e", "n", "t", " ", "I", "D">>)

\* the caught error is the 30-second timer's, or names a timeout or the network
C28_TimeoutOrNetworkError(msg) ==
    \/ msg = TIMEOUT_MESSAGE
    \/ Includes(msg, <<"t", "i", "m", "e", "o", "u", "t">>) \/ Includes(msg, <<"n", "e", "t", "w", "o", "r", "k">>) \/ Includes(msg, <<"N", "e", "t", "w", "o", "r", "k">>)

\* C28: handleConnect reports every failed federated connect in one
\* category: the error of the client-side 30-second timeout is reported in
\* the network/timeout category, and an error is reported as unknown
\* ('connection failed') only when it is neither about the client
\* identifier nor a timeout or network error.
C28_FailureClassified ==
    [][/\ ConnectTimeout => lastError' \in C28_NetworkOrTimeout
       /\ \A msg \in ConnectErrors \cup {TIMEOUT_MESSAGE} :
              (connectingId = "web3auth" /\ lastError' # lastError /\ lastError' = C28_Unknown(msg))
                  => (~C28_AboutClientId(msg) /\ ~C28_TimeoutOrNetworkError(msg))]_vars

\* the same for the errors wallet.connect() itself rejects with, which holds:
\* each is reported in the category its message names
C28_RejectionsClassified ==
    [][(connectingId = "web3auth" /\ connectPc = "walletConnect" /\ connectPc' = "idle" /\ ~ConnectTimeout)
          => \/ lastError' = C28_Configuration
             \/ lastError' \in C28_NetworkOrTimeout
             \/ lastError' = C28_Unknown(<<"U", "s", "e", "r", " ", "c", "l", "o", "s", "e", "d", " ", "t", "h", "e", " ", "m", "o", "d", "a", "l">>)]_vars

(***************************************************************************)
(* C29: connected means a provider and a derived account.                  *)
(***************************************************************************)
\* C29: whenever no operation is in progress (isLoading = false),
\* isConnected = true implies that provider and algorandAccount are both
\* non-null, after the start-up session restore as well as after login.
C29_ConnectedHasAccount ==
    (~isLoading /\ isConnected) => (provider # NULL /\ algorandAccount # NULL)

\* the same once login has been the last operation to end, with nothing else
\* outstanding beside it, which holds
C29_LoginEndsWithAccount ==
    [][(loginPc # "idle" /\ loginPc' = "idle" /\ initPc = "done" /\ logoutPc = "idle"
         /\ ~(reloadPending /\ ~reloadPending') /\ isConnected')
          => (provider' # NULL /\ algorandAccount' # NULL)]_vars

(***************************************************************************)
(* C30: the social buttons after a login attempt.                          *)
(***************************************************************************)
\* handleSocialLogin leaves its await in this step
C30_AttemptEnds == socialPc = "connectFn" /\ socialPc' = "idle" /\ ~(reloadPending /\ ~reloadPending')

\* the login that handleSocialLogin awaited left a federated session
C30_LoginSucceeded == isConnected /\ algorandAccount # NULL

\* C30: once a social login attempt started by handleSocialLogin has
\* finished, succeeded or failed, connectingProvider is null again, so the
\* social buttons are enabled without a page reload; and handleSocialLogin
\* closes the modal only when the login succeeded.
C30_SocialLoginEnds ==
    /\ [](socialPc = "idle" => connectingProvider = NULL)
    /\ [][(C30_AttemptEnds /\ openWalletModal /\ ~openWalletModal') => C30_LoginSucceeded]_vars

\* the first half alone
C30_ButtonsEnabledAgain == socialPc = "idle" => connectingProvider = NULL

\* the second half alone
C30_ClosedOnlyOnSuccess ==
    [][(C30_AttemptEnds /\ openWalletModal /\ ~openWalletModal') => C30_LoginSucceeded]_vars

\* while an attempt is running exactly the pressed provider is recorded, which holds
C30_RecordedWhileRunning == socialPc = "connectFn" => connectingProvider \in SocialLoginProviders
====
